---- MODULE Spec2Model ----
(***************************************************************************)
(* Model of the BharatKYC Lite service worker (sw.js): request routing,    *)
(* cache-first and network-first strategies, bounded cache stores, the     *)
(* background-sync queue, and the install / activate lifecycle.            *)
(*                                                                         *)
(* Strings the code inspects with startsWith / endsWith (URL path names,   *)
(* cache names) are sequences of chunks: "/" is a chunk, ".ext" is a chunk *)
(* and so is each name between them.  startsWith and endsWith are prefix   *)
(* and suffix tests on these sequences.                                    *)
(***************************************************************************)
EXTENDS Integers, Sequences, FiniteSets, TLC

VARIABLES
    caches,     \* CacheStorage: cache name -> sequence of entries, oldest first
    db,         \* IndexedDB database 'bharatkyc-sync'
    posted,     \* messages posted to client windows, in order
    promised,   \* requests answered with the synthetic 202 response, in order
    hist,       \* keys put into the store under trim, in order (SpecTrim)
    maxItems,   \* the maxItems argument of limitCacheSize (SpecTrim)
    last,       \* what the last handled event did and returned
    server,     \* the Express server: upload directory, cleanup timers, last answer
    page,       \* the page (app.js): AppState, its IndexedDB handle, what it showed
    running     \* service-worker operations suspended at an await: replay passes, handlers

vars == <<caches, db, posted, promised, hist, maxItems, last, server, page, running>>

----------------------------------------------------------------------------
(* String.prototype.startsWith / endsWith on chunk sequences *)

StartsWith(s, p) == Len(s) >= Len(p) /\ SubSeq(s, 1, Len(p)) = p

EndsWith(s, p) == Len(s) >= Len(p) /\ SubSeq(s, Len(s) - Len(p) + 1, Len(s)) = p

----------------------------------------------------------------------------
(* Names and limits, sw.js lines 8-41 *)

SW_VERSION == <<"1.0.0">>
CACHE_PREFIX == <<"bharatkyc-lite">>
CACHE_STATIC == CACHE_PREFIX \o <<"-static-">> \o SW_VERSION
CACHE_DYNAMIC == CACHE_PREFIX \o <<"-dynamic-">> \o SW_VERSION
CACHE_IMAGES == CACHE_PREFIX \o <<"-images-">> \o SW_VERSION

LIMIT_STATIC == 50
LIMIT_DYNAMIC == 100
LIMIT_IMAGES == 200

CACHE_LIMITS(name) ==
    IF name = CACHE_STATIC THEN LIMIT_STATIC
    ELSE IF name = CACHE_DYNAMIC THEN LIMIT_DYNAMIC
    ELSE LIMIT_IMAGES

----------------------------------------------------------------------------
(* URLs and requests.  self.location is https://app:443.  A URL is         *)
(* [host, port, path, q]: path is url.pathname, q stands for the query     *)
(* string (0: none), which is part of the cache key but not of pathname.   *)

SELF_HOST == "app"
SELF_PORT == "443"

Url(host, port, path, q) == [host |-> host, port |-> port, path |-> path, q |-> q]

Local(path) == Url(SELF_HOST, SELF_PORT, path, 0)

(* isStaticAsset, isImageRequest, isApiRequest *)

isStaticAsset(url) ==
    \/ EndsWith(url.path, <<".html">>)
    \/ EndsWith(url.path, <<".css">>)
    \/ EndsWith(url.path, <<".js">>)
    \/ EndsWith(url.path, <<".json">>)
    \/ url.path = <<"/">>

isImageRequest(url) ==
    \/ EndsWith(url.path, <<".png">>)
    \/ EndsWith(url.path, <<".jpg">>)
    \/ EndsWith(url.path, <<".jpeg">>)
    \/ EndsWith(url.path, <<".webp">>)
    \/ EndsWith(url.path, <<".svg">>)
    \/ EndsWith(url.path, <<".ico">>)

isApiRequest(url) ==
    StartsWith(url.path, <<"/", "api", "/">>) \/ url.host # SELF_HOST

(* The fetch listener: which handler answers the request, or "none" when   *)
(* the listener returns without calling respondWith.                       *)

Route_apiFirst(req) ==
    IF req.method # "GET" /\ ~isApiRequest(req.url) THEN "none"
    ELSE IF isApiRequest(req.url) THEN "api"
    ELSE IF isStaticAsset(req.url) THEN "static"
    ELSE IF isImageRequest(req.url) THEN "image"
    ELSE "dynamic"

Route_getOnly(req) ==
    IF req.method # "GET" THEN "none"
    ELSE IF isStaticAsset(req.url) THEN "static"
    ELSE IF isImageRequest(req.url) THEN "image"
    ELSE IF isApiRequest(req.url) THEN "api"
    ELSE "dynamic"

Route(req) ==
    IF req.method # "GET" /\ ~isApiRequest(req.url) THEN "none"
    ELSE IF req.method = "POST" /\ isApiRequest(req.url) THEN "api"
    ELSE IF isStaticAsset(req.url) THEN "static"
    ELSE IF isImageRequest(req.url) THEN "image"
    ELSE IF isApiRequest(req.url) THEN "api"
    ELSE "dynamic"

----------------------------------------------------------------------------
(* Responses.  A network outcome is a response or a failure of the fetch   *)
(* (NetworkError, or the abort by the timeout of fetchWithTimeout).        *)

Resp(status, ctype, body, servedBy) ==
    [status |-> status, ctype |-> ctype, body |-> body, servedBy |-> servedBy]

NoResponse == Resp(0, "", "", "")

Ok(resp) == resp.status >= 200 /\ resp.status <= 299

NetResponse(net) == Resp(net.status, "server", net.body, "")

Answered(resp) == [kind |-> "response", resp |-> resp]
Rejected == [kind |-> "error", resp |-> NoResponse]
NotHandled == [kind |-> "none", resp |-> NoResponse]

(* createOfflinePage, createPlaceholderImage: new Response(body, {headers}) *)
(* has status 200.                                                          *)

createOfflinePage == Resp(200, "text/html", "offline-page", "")

createPlaceholderImage == Resp(200, "image/svg+xml", "image-unavailable-svg", "")

SyntheticQueued ==
    Resp(202, "application/json",
         "{success:false,message:'Request queued for background sync',offline:true}", "")

----------------------------------------------------------------------------
(* Cache and CacheStorage operations of the platform *)

CachesOpen(c, name) == IF name \in DOMAIN c THEN c ELSE c @@ (name :> <<>>)

CacheKeys(store) == [i \in 1..Len(store) |-> store[i].url]

CacheMatch(store, req) ==
    IF req.method = "GET" /\ \E i \in 1..Len(store) : store[i].url = req.url
    THEN store[CHOOSE i \in 1..Len(store) : store[i].url = req.url].resp
    ELSE NoResponse

CacheDelete(store, url) == SelectSeq(store, LAMBDA e : e.url # url)

CachePut(store, url, resp) == Append(CacheDelete(store, url), [url |-> url, resp |-> resp])

(* limitCacheSize *)

limitCacheSize_newest(c, cacheName, max) ==
    LET c1 == CachesOpen(c, cacheName)
        keys == CacheKeys(c1[cacheName])
    IN  IF Len(keys) > max
        THEN LET deleteCount == Len(keys) - max
                 doomed == {keys[i] : i \in (Len(keys) - deleteCount + 1)..Len(keys)}
             IN  [c1 EXCEPT ![cacheName] = SelectSeq(@, LAMBDA e : e.url \notin doomed)]
        ELSE c1

limitCacheSize(c, cacheName, max) ==
    LET c1 == CachesOpen(c, cacheName)
        keys == CacheKeys(c1[cacheName])
    IN  IF Len(keys) > max
        THEN LET deleteCount == Len(keys) - max
                 doomed == {keys[i] : i \in 1..deleteCount}
             IN  [c1 EXCEPT ![cacheName] = SelectSeq(@, LAMBDA e : e.url \notin doomed)]
        ELSE c1

----------------------------------------------------------------------------
(* IndexedDB.  db = [version, stores, items, nextId]: version 0 is a        *)
(* database that does not exist yet; items is the content of the object    *)
(* store 'requests' (keyPath 'id', autoIncrement), in key order.           *)
(*                                                                         *)
(* openDB resolves with request.result, the platform's IDBDatabase.  The   *)
(* upgrade argument is called as a function; queueBackgroundSync passes    *)
(* the object {upgrade(db){...}}, so the call throws inside the            *)
(* upgradeneeded handler, the version change is aborted and the open       *)
(* request fails.  Without an upgrade argument the database is created at  *)
(* the requested version with no object store.                             *)

NoDb == [version |-> 0, stores |-> {}, items |-> <<>>, nextId |-> 1]

openDB(d, version, upgradeCallback) ==
    IF d.version < version
    THEN IF upgradeCallback = "none"
         THEN [ok |-> TRUE, db |-> [d EXCEPT !.version = version]]
         ELSE IF upgradeCallback = "function"
              THEN [ok |-> TRUE,
                    db |-> [d EXCEPT !.version = version, !.stores = @ \cup {"requests"}]]
              ELSE [ok |-> FALSE, db |-> d]
    ELSE [ok |-> TRUE, db |-> d]

(* The transaction returned by IDBDatabase.transaction() has the members   *)
(* of IDBTransaction (objectStore(), ...); it has no member 'store', so    *)
(* evaluating tx.store.add / tx.store.getAll / tx.store.delete throws.     *)

TxHasStoreMember == FALSE

(* fetch(request, {signal}) builds a new Request from the intercepted one  *)
(* and takes over its body: a request that carries a body is used up once  *)
(* fetchWithTimeout has been called on it, and request.text() then rejects.*)

BodyUsedAfterFetch(req) == req.body # ""

(* queueBackgroundSync: the whole body is inside try/catch; the catch only *)
(* logs.  Returns the database after the call.                             *)

queueBackgroundSync(d, req, now) ==
    LET opened == openDB(d, 1, "object")
    IN  IF ~opened.ok THEN opened.db
        ELSE IF BodyUsedAfterFetch(req) THEN opened.db
        ELSE IF "requests" \notin opened.db.stores THEN opened.db
        ELSE IF ~TxHasStoreMember THEN opened.db
        ELSE [opened.db EXCEPT
                !.items = Append(@, [id |-> opened.db.nextId, url |-> req.url,
                                     method |-> req.method, body |-> req.body,
                                     timestamp |-> now]),
                !.nextId = @ + 1]

(* notifyClients: one postMessage per client window of clients.matchAll()  *)

notifyClients(p, message, clients) ==
    p \o [i \in 1..clients |-> [type |-> message.type, url |-> message.url, client |-> i]]

(* handleBackgroundUpload.  srv is what the server answers to a replayed   *)
(* request ("ok", "notok", "fail"); clients is the number of client        *)
(* windows.  Returns the database, the posted messages and the             *)
(* requests that were re-issued, fetch(url, {method, headers, body}).      *)

RECURSIVE replayLoop(_, _, _, _, _, _)
replayLoop(requests, d, p, sent, srv, clients) ==
    IF requests = <<>> THEN [db |-> d, posted |-> p, sent |-> sent]
    ELSE LET requestData == Head(requests)
             sent1 == Append(sent, [url |-> requestData.url, method |-> requestData.method,
                                    body |-> requestData.body])
         IN  IF srv = "ok"
             THEN replayLoop(Tail(requests),
                     [d EXCEPT !.items = SelectSeq(@, LAMBDA it : it.id # requestData.id)],
                     notifyClients(p, [type |-> "SYNC_SUCCESS", url |-> requestData.url], clients),
                     sent1, srv, clients)
             ELSE replayLoop(Tail(requests), d, p, sent1, srv, clients)

handleBackgroundUpload(d, p, srv, clients) ==
    LET opened == openDB(d, 1, "none")
    IN  IF ~opened.ok THEN [db |-> opened.db, posted |-> p, sent |-> <<>>]
        ELSE IF "requests" \notin opened.db.stores
             THEN [db |-> opened.db, posted |-> p, sent |-> <<>>]
        ELSE IF ~TxHasStoreMember
             THEN [db |-> opened.db, posted |-> p, sent |-> <<>>]
        ELSE replayLoop(opened.db.items, opened.db, p, <<>>, srv, clients)

----------------------------------------------------------------------------
(* Request handlers.  req = [method, url, dest, body]; net is the outcome  *)
(* of the one fetchWithTimeout call the handler may make:                  *)
(* [kind, status, body] with kind "response", "timeout" or "neterror".     *)
(* Each handler returns the cache storage and database it leaves, what the *)
(* caller gets (out), how many network fetches and cache puts it made,     *)
(* whether its cache lookup found an entry, and the platform calls it made *)
(* in order (steps): "match" for cache.match, "fetch" for fetchWithTimeout,*)
(* "put" for a cache.put that stored the response, "put-rejected" for one  *)
(* that threw, "trim" for limitCacheSize, "queue" for queueBackgroundSync. *)

Result(c, d, out, fetches, puts, hit, steps) ==
    [caches |-> c, db |-> d, out |-> out, fetches |-> fetches, puts |-> puts, hit |-> hit,
     steps |-> steps]

(* cache.put(request, response) rejects with a TypeError when the request  *)
(* method is not GET and when the response has status 206 (the answer to a *)
(* Range request).                                                         *)

CachePutRejects(req, resp) == req.method # "GET" \/ resp.status = 206

(* handleStaticAsset *)

handleStaticAsset_revalidate(c, d, req, net) ==
    LET c1 == CachesOpen(c, CACHE_STATIC)
        caught == IF req.dest = "document" THEN Answered(createOfflinePage) ELSE Rejected
    IN  IF net.kind # "response"
        THEN Result(c1, d, caught, 1, 0, FALSE, <<"fetch">>)
        ELSE IF Ok(NetResponse(net)) /\ ~CachePutRejects(req, NetResponse(net))
        THEN Result(limitCacheSize(
                        [c1 EXCEPT ![CACHE_STATIC] = CachePut(@, req.url, NetResponse(net))],
                        CACHE_STATIC, CACHE_LIMITS(CACHE_STATIC)),
                    d, Answered(NetResponse(net)), 1, 1, FALSE, <<"fetch", "put", "trim">>)
        ELSE Result(c1, d, Answered(NetResponse(net)), 1, 0, FALSE, <<"fetch">>)

handleStaticAsset_rethrow(c, d, req, net) ==
    LET c1 == CachesOpen(c, CACHE_STATIC)
        cachedResponse == CacheMatch(c1[CACHE_STATIC], req)
    IN  IF cachedResponse # NoResponse
        THEN Result(c1, d, Answered(cachedResponse), 0, 0, TRUE, <<"match">>)
        ELSE IF net.kind # "response"
        THEN Result(c1, d, Rejected, 1, 0, FALSE, <<"match", "fetch">>)
        ELSE IF Ok(NetResponse(net)) /\ ~CachePutRejects(req, NetResponse(net))
        THEN Result(limitCacheSize(
                        [c1 EXCEPT ![CACHE_STATIC] = CachePut(@, req.url, NetResponse(net))],
                        CACHE_STATIC, CACHE_LIMITS(CACHE_STATIC)),
                    d, Answered(NetResponse(net)), 1, 1, FALSE,
                    <<"match", "fetch", "put", "trim">>)
        ELSE Result(c1, d, Answered(NetResponse(net)), 1, 0, FALSE, <<"match", "fetch">>)

handleStaticAsset_storesFallback(c, d, req, net) ==
    LET c1 == CachesOpen(c, CACHE_STATIC)
        cachedResponse == CacheMatch(c1[CACHE_STATIC], req)
    IN  IF cachedResponse # NoResponse
        THEN Result(c1, d, Answered(cachedResponse), 0, 0, TRUE, <<"match">>)
        ELSE IF net.kind # "response"
        THEN Result([c1 EXCEPT ![CACHE_STATIC] = CachePut(@, req.url, createOfflinePage)],
                    d, Answered(createOfflinePage), 1, 1, FALSE, <<"match", "fetch", "put">>)
        ELSE IF Ok(NetResponse(net)) /\ ~CachePutRejects(req, NetResponse(net))
        THEN Result(limitCacheSize(
                        [c1 EXCEPT ![CACHE_STATIC] = CachePut(@, req.url, NetResponse(net))],
                        CACHE_STATIC, CACHE_LIMITS(CACHE_STATIC)),
                    d, Answered(NetResponse(net)), 1, 1, FALSE,
                    <<"match", "fetch", "put", "trim">>)
        ELSE Result(c1, d, Answered(NetResponse(net)), 1, 0, FALSE, <<"match", "fetch">>)

handleStaticAsset(c, d, req, net) ==
    LET c1 == CachesOpen(c, CACHE_STATIC)
        cachedResponse == CacheMatch(c1[CACHE_STATIC], req)
        caught == IF req.dest = "document" THEN Answered(createOfflinePage) ELSE Rejected
    IN  IF cachedResponse # NoResponse
        THEN Result(c1, d, Answered(cachedResponse), 0, 0, TRUE, <<"match">>)
        ELSE IF net.kind # "response"
        THEN Result(c1, d, caught, 1, 0, FALSE, <<"match", "fetch">>)
        ELSE IF Ok(NetResponse(net))
        THEN IF CachePutRejects(req, NetResponse(net))
             THEN Result(c1, d, caught, 1, 0, FALSE, <<"match", "fetch", "put-rejected">>)
             ELSE Result(limitCacheSize(
                            [c1 EXCEPT ![CACHE_STATIC] = CachePut(@, req.url, NetResponse(net))],
                            CACHE_STATIC, CACHE_LIMITS(CACHE_STATIC)),
                         d, Answered(NetResponse(net)), 1, 1, FALSE,
                         <<"match", "fetch", "put", "trim">>)
        ELSE Result(c1, d, Answered(NetResponse(net)), 1, 0, FALSE, <<"match", "fetch">>)

(* handleImageRequest *)

handleImageRequest_rethrow(c, d, req, net) ==
    LET c1 == CachesOpen(c, CACHE_IMAGES)
        cachedResponse == CacheMatch(c1[CACHE_IMAGES], req)
    IN  IF cachedResponse # NoResponse
        THEN Result(c1, d, Answered(cachedResponse), 0, 0, TRUE, <<"match">>)
        ELSE IF net.kind # "response"
        THEN Result(c1, d, Rejected, 1, 0, FALSE, <<"match", "fetch">>)
        ELSE IF Ok(NetResponse(net)) /\ ~CachePutRejects(req, NetResponse(net))
        THEN Result(limitCacheSize(
                        [c1 EXCEPT ![CACHE_IMAGES] = CachePut(@, req.url, NetResponse(net))],
                        CACHE_IMAGES, CACHE_LIMITS(CACHE_IMAGES)),
                    d, Answered(NetResponse(net)), 1, 1, FALSE,
                    <<"match", "fetch", "put", "trim">>)
        ELSE Result(c1, d, Answered(NetResponse(net)), 1, 0, FALSE, <<"match", "fetch">>)

handleImageRequest_noStore(c, d, req, net) ==
    LET c1 == CachesOpen(c, CACHE_IMAGES)
        cachedResponse == CacheMatch(c1[CACHE_IMAGES], req)
    IN  IF cachedResponse # NoResponse
        THEN Result(c1, d, Answered(cachedResponse), 0, 0, TRUE, <<"match">>)
        ELSE IF net.kind # "response"
        THEN Result(c1, d, Answered(createPlaceholderImage), 1, 0, FALSE, <<"match", "fetch">>)
        ELSE Result(c1, d, Answered(NetResponse(net)), 1, 0, FALSE, <<"match", "fetch">>)

handleImageRequest(c, d, req, net) ==
    LET c1 == CachesOpen(c, CACHE_IMAGES)
        cachedResponse == CacheMatch(c1[CACHE_IMAGES], req)
        caught == Answered(createPlaceholderImage)
    IN  IF cachedResponse # NoResponse
        THEN Result(c1, d, Answered(cachedResponse), 0, 0, TRUE, <<"match">>)
        ELSE IF net.kind # "response"
        THEN Result(c1, d, caught, 1, 0, FALSE, <<"match", "fetch">>)
        ELSE IF Ok(NetResponse(net))
        THEN IF CachePutRejects(req, NetResponse(net))
             THEN Result(c1, d, caught, 1, 0, FALSE, <<"match", "fetch", "put-rejected">>)
             ELSE Result(limitCacheSize(
                            [c1 EXCEPT ![CACHE_IMAGES] = CachePut(@, req.url, NetResponse(net))],
                            CACHE_IMAGES, CACHE_LIMITS(CACHE_IMAGES)),
                         d, Answered(NetResponse(net)), 1, 1, FALSE,
                         <<"match", "fetch", "put", "trim">>)
        ELSE Result(c1, d, Answered(NetResponse(net)), 1, 0, FALSE, <<"match", "fetch">>)

(* handleApiRequest.  The catch block is entered when the fetch fails and  *)
(* when cache.put of the fetched response throws; tried says which calls   *)
(* of the try block were made before it.                                   *)

handleApiRequest_unmarked(c, d, req, net) ==
    LET putFailed == /\ net.kind = "response"
                     /\ req.method = "GET" /\ Ok(NetResponse(net))
                     /\ CachePutRejects(req, NetResponse(net))
        tried == IF putFailed THEN <<"fetch", "put-rejected">> ELSE <<"fetch">>
    IN  IF net.kind = "response" /\ ~putFailed
        THEN IF req.method = "GET" /\ Ok(NetResponse(net))
             THEN LET c1 == CachesOpen(c, CACHE_DYNAMIC)
                  IN  Result([c1 EXCEPT ![CACHE_DYNAMIC] = CachePut(@, req.url, NetResponse(net))],
                             d, Answered(NetResponse(net)), 1, 1, FALSE, <<"fetch", "put">>)
             ELSE Result(c, d, Answered(NetResponse(net)), 1, 0, FALSE, <<"fetch">>)
        ELSE LET c1 == IF req.method = "GET" THEN CachesOpen(c, CACHE_DYNAMIC) ELSE c
                 cachedResponse == IF req.method = "GET"
                                   THEN CacheMatch(c1[CACHE_DYNAMIC], req) ELSE NoResponse
                 looked == IF req.method = "GET" THEN tried \o <<"match">> ELSE tried
             IN  IF cachedResponse # NoResponse
                 THEN Result(c1, d, Answered(cachedResponse), 1, 0, TRUE, looked)
                 ELSE IF req.method = "POST"
                 THEN Result(c1, queueBackgroundSync(d, req, 0),
                             Answered(SyntheticQueued), 1, 0, FALSE, looked \o <<"queue">>)
                 ELSE Result(c1, d, Rejected, 1, 0, FALSE, looked)

handleApiRequest(c, d, req, net) ==
    LET putFailed == /\ net.kind = "response"
                     /\ req.method = "GET" /\ Ok(NetResponse(net))
                     /\ CachePutRejects(req, NetResponse(net))
        tried == IF putFailed THEN <<"fetch", "put-rejected">> ELSE <<"fetch">>
    IN  IF net.kind = "response" /\ ~putFailed
        THEN IF req.method = "GET" /\ Ok(NetResponse(net))
             THEN LET c1 == CachesOpen(c, CACHE_DYNAMIC)
                  IN  Result([c1 EXCEPT ![CACHE_DYNAMIC] = CachePut(@, req.url, NetResponse(net))],
                             d, Answered(NetResponse(net)), 1, 1, FALSE, <<"fetch", "put">>)
             ELSE Result(c, d, Answered(NetResponse(net)), 1, 0, FALSE, <<"fetch">>)
        ELSE LET c1 == IF req.method = "GET" THEN CachesOpen(c, CACHE_DYNAMIC) ELSE c
                 cachedResponse == IF req.method = "GET"
                                   THEN CacheMatch(c1[CACHE_DYNAMIC], req) ELSE NoResponse
                 looked == IF req.method = "GET" THEN tried \o <<"match">> ELSE tried
             IN  IF cachedResponse # NoResponse
                 THEN Result(c1, d,
                             Answered([cachedResponse EXCEPT !.servedBy = "cache-offline"]),
                             1, 0, TRUE, looked)
                 ELSE IF req.method = "POST"
                 THEN Result(c1, queueBackgroundSync(d, req, 0),
                             Answered(SyntheticQueued), 1, 0, FALSE, looked \o <<"queue">>)
                 ELSE Result(c1, d, Rejected, 1, 0, FALSE, looked)

(* handleDynamicRequest.  Its catch block, too, is entered when the fetch  *)
(* fails and when cache.put of the fetched response throws.                *)

handleDynamicRequest_storesAny(c, d, req, net) ==
    LET c1 == CachesOpen(c, CACHE_DYNAMIC)
        cachedResponse == CacheMatch(c1[CACHE_DYNAMIC], req)
    IN  IF net.kind # "response"
        THEN IF cachedResponse # NoResponse
             THEN Result(c1, d, Answered(cachedResponse), 1, 0, TRUE, <<"fetch", "match">>)
             ELSE Result(c1, d, Rejected, 1, 0, FALSE, <<"fetch", "match">>)
        ELSE Result(limitCacheSize(
                        [c1 EXCEPT ![CACHE_DYNAMIC] = CachePut(@, req.url, NetResponse(net))],
                        CACHE_DYNAMIC, CACHE_LIMITS(CACHE_DYNAMIC)),
                    d, Answered(NetResponse(net)), 1, 1, FALSE, <<"fetch", "put", "trim">>)

handleDynamicRequest(c, d, req, net) ==
    LET c1 == CachesOpen(c, CACHE_DYNAMIC)
        cachedResponse == CacheMatch(c1[CACHE_DYNAMIC], req)
        putFailed == /\ net.kind = "response" /\ Ok(NetResponse(net))
                     /\ CachePutRejects(req, NetResponse(net))
        tried == IF putFailed THEN <<"fetch", "put-rejected">> ELSE <<"fetch">>
        caught == IF cachedResponse # NoResponse
                  THEN Result(c1, d, Answered(cachedResponse), 1, 0, TRUE, tried \o <<"match">>)
                  ELSE Result(c1, d, Rejected, 1, 0, FALSE, tried \o <<"match">>)
    IN  IF net.kind # "response" \/ putFailed THEN caught
        ELSE IF Ok(NetResponse(net))
        THEN Result(limitCacheSize(
                        [c1 EXCEPT ![CACHE_DYNAMIC] = CachePut(@, req.url, NetResponse(net))],
                        CACHE_DYNAMIC, CACHE_LIMITS(CACHE_DYNAMIC)),
                    d, Answered(NetResponse(net)), 1, 1, FALSE, <<"fetch", "put", "trim">>)
        ELSE Result(c, d, Answered(NetResponse(net)), 1, 0, FALSE, <<"fetch">>)

(* The fetch listener with the handler it hands the request to.  A request *)
(* the listener does not answer goes to the network as the browser sends   *)
(* it: the page gets the network's response or its failure.                *)

Handle(c, d, req, net) ==
    LET h == Route(req)
    IN  IF h = "static" THEN handleStaticAsset(c, d, req, net)
        ELSE IF h = "image" THEN handleImageRequest(c, d, req, net)
        ELSE IF h = "api" THEN handleApiRequest(c, d, req, net)
        ELSE IF h = "dynamic" THEN handleDynamicRequest(c, d, req, net)
        ELSE Result(c, d, NotHandled, 0, 0, FALSE, <<>>)

----------------------------------------------------------------------------
(* Install and the CACHE_URLS message.  okAt is the set of positions of    *)
(* the list whose fetch returned an ok response with the given body; every *)
(* other position failed or returned a non-ok response and is skipped.     *)
(* The fetches run concurrently: order is the order in which they          *)
(* complete, and the puts are made in that order.                          *)

PATH_ROOT == <<"/">>
PATH_INDEX == <<"/", "index", ".html">>
PATH_CSS == <<"/", "src", "/", "css", "/", "main", ".css">>
PATH_APPJS == <<"/", "src", "/", "js", "/", "app", ".js">>
PATH_MANIFEST == <<"/", "manifest", ".json">>
PATH_ICON192 == <<"/", "src", "/", "icons", "/", "icon-192x192", ".png">>
PATH_ICON512 == <<"/", "src", "/", "icons", "/", "icon-512x512", ".png">>

STATIC_CACHE_FILES ==
    <<Local(PATH_ROOT), Local(PATH_INDEX), Local(PATH_CSS), Local(PATH_APPJS),
      Local(PATH_MANIFEST), Local(PATH_ICON192), Local(PATH_ICON512)>>

RECURSIVE PutEach(_, _, _, _, _, _)
PutEach(store, urls, order, i, okAt, body) ==
    IF i > Len(order) THEN store
    ELSE PutEach(IF order[i] \in okAt
                 THEN CachePut(store, urls[order[i]], Resp(200, "server", body, ""))
                 ELSE store,
                 urls, order, i + 1, okAt, body)

cacheStaticAssets_allOrNothing(c, order, okAt, body) ==
    LET c1 == CachesOpen(c, CACHE_STATIC)
    IN  IF okAt = 1..Len(STATIC_CACHE_FILES)
        THEN [c1 EXCEPT ![CACHE_STATIC] = PutEach(@, STATIC_CACHE_FILES, order, 1, okAt, body)]
        ELSE c1

cacheStaticAssets(c, order, okAt, body) ==
    LET c1 == CachesOpen(c, CACHE_STATIC)
    IN  [c1 EXCEPT ![CACHE_STATIC] = PutEach(@, STATIC_CACHE_FILES, order, 1, okAt, body)]

cacheUrls(c, urls, order, okAt, body) ==
    LET c1 == CachesOpen(c, CACHE_DYNAMIC)
    IN  [c1 EXCEPT ![CACHE_DYNAMIC] = PutEach(@, urls, order, 1, okAt, body)]

----------------------------------------------------------------------------
(* Requests, network outcomes and what is recorded of the last event *)

PATH_LOGO == <<"/", "logo", ".png">>
PATH_UPLOAD == <<"/", "api", "/", "upload">>
PATH_PAGE == <<"/", "page">>

Req(method, url, dest, body) == [method |-> method, url |-> url, dest |-> dest, body |-> body]

NoReq == Req("", Local(<<>>), "", "")

MutatingMethods == {"POST", "PUT", "PATCH", "DELETE"}

Net(kind, status, body) == [kind |-> kind, status |-> status, body |-> body]

NoNet == Net("", 0, "")

NetOutcomes ==
    {Net("response", 200, b) : b \in {"v1", "v2"}}
    \cup {Net("response", 206, "part"), Net("response", 404, "not-found"),
          Net("timeout", 0, ""), Net("neterror", 0, "")}

NetFailed(net) == net.kind \in {"timeout", "neterror"}

Last(op, req, net, handler, out, fetches, puts, hit, steps, srv, clients, sent, okAt, before) ==
    [op |-> op, req |-> req, net |-> net, handler |-> handler, out |-> out,
     fetches |-> fetches, puts |-> puts, hit |-> hit, steps |-> steps, srv |-> srv,
     clients |-> clients, sent |-> sent, okAt |-> okAt, before |-> before, cacheName |-> <<>>]

NoLast == Last("", NoReq, NoNet, "", NotHandled, 0, 0, FALSE, <<>>, "", 0, <<>>, {}, {})

NoCaches == [n \in {} |-> <<>>]

Promised(seq, req) == \E i \in 1..Len(seq) : seq[i] = req

(* fetch event for a request of the set R with a network outcome of N *)
FetchEvent(R, N) ==
    \E req \in R, net \in N :
        LET r == Handle(caches, db, req, net)
            seen == IF r.fetches > 0 \/ r.out.kind = "none" THEN net ELSE NoNet
        IN  /\ caches' = r.caches
            /\ db' = r.db
            /\ promised' = IF r.out = Answered(SyntheticQueued) /\ ~Promised(promised, req)
                            THEN Append(promised, req) ELSE promised
            /\ last' = Last("fetch", req, seen, Route(req), r.out,
                            r.fetches, r.puts, r.hit, r.steps, "", 0, <<>>, {}, DOMAIN caches)
            /\ UNCHANGED <<running, server, page, posted, hist, maxItems>>

(* install event: cacheStaticAssets (skipWaiting changes none of this state) *)
MaxSkipped == 1

OkSets(n) == {(1..n) \ bad : bad \in {b \in SUBSET (1..n) : Cardinality(b) <= MaxSkipped}}

(* completion orders taken: the order of the list and its reverse *)
Orders(n) == {[i \in 1..n |-> i], [i \in 1..n |-> n + 1 - i]}

InstallEvent ==
    \E okAt \in OkSets(Len(STATIC_CACHE_FILES)), order \in Orders(Len(STATIC_CACHE_FILES)) :
        /\ caches' = cacheStaticAssets(caches, order, okAt, "v1")
        /\ last' = [NoLast EXCEPT !.op = "install", !.okAt = okAt, !.before = DOMAIN caches]
        /\ UNCHANGED <<running, server, page, db, posted, promised, hist, maxItems>>

(* message event {type: 'CACHE_URLS', data: {urls}} *)
UrlLists == {<<Local(PATH_PAGE)>>, <<Local(PATH_UPLOAD), Local(PATH_PAGE)>>}

CacheUrlsMessage ==
    \E urls \in UrlLists :
        \E okAt \in OkSets(Len(urls)), order \in Orders(Len(urls)) :
            /\ caches' = cacheUrls(caches, urls, order, okAt, "v1")
            /\ last' = [NoLast EXCEPT !.op = "CACHE_URLS", !.before = DOMAIN caches]
            /\ UNCHANGED <<running, server, page, db, posted, promised, hist, maxItems>>

(* sync event with tag 'background-upload' *)
MaxClients == 2

SyncEvent ==
    \E srv \in {"ok", "notok", "fail"}, clients \in 0..MaxClients :
        LET r == handleBackgroundUpload(db, posted, srv, clients)
        IN  /\ db' = r.db
            /\ posted' = r.posted
            /\ last' = [NoLast EXCEPT !.op = "sync", !.srv = srv, !.clients = clients,
                                       !.sent = r.sent, !.before = DOMAIN caches]
            /\ UNCHANGED <<running, server, page, caches, promised, hist, maxItems>>

(* message event {type: 'CLEAR_CACHE', data: {cacheName}}: clearCache.      *)
(* caches.delete of a name that does not exist resolves to false.          *)

clearCache_all(c, cacheName) == NoCaches

clearCache(c, cacheName) == [n \in DOMAIN c \ {cacheName} |-> c[n]]

(* activate event: cleanupOldCaches (clients.claim changes none of this state) *)

cleanupOldCaches_allPrefixed(c) ==
    LET cacheNames == DOMAIN c
        deleted == {cacheName \in cacheNames : StartsWith(cacheName, CACHE_PREFIX)}
    IN  [n \in cacheNames \ deleted |-> c[n]]

cleanupOldCaches_everyStore(c) ==
    LET cacheNames == DOMAIN c
        currentCaches == {CACHE_STATIC, CACHE_DYNAMIC, CACHE_IMAGES}
        deleted == {cacheName \in cacheNames : cacheName \notin currentCaches}
    IN  [n \in cacheNames \ deleted |-> c[n]]

cleanupOldCaches(c) ==
    LET cacheNames == DOMAIN c
        currentCaches == {CACHE_STATIC, CACHE_DYNAMIC, CACHE_IMAGES}
        deleted == {cacheName \in cacheNames :
                       StartsWith(cacheName, CACHE_PREFIX) /\ cacheName \notin currentCaches}
    IN  [n \in cacheNames \ deleted |-> c[n]]

ActivateEvent ==
    /\ caches' = cleanupOldCaches(caches)
    /\ last' = [NoLast EXCEPT !.op = "activate", !.before = DOMAIN caches]
    /\ UNCHANGED <<running, server, page, db, posted, promised, hist, maxItems>>

----------------------------------------------------------------------------
(* Operations in progress.  A handler of the service worker is an async    *)
(* function: it runs until an await and is resumed later, and other events *)
(* are handled in between.  running.passes holds the replay passes         *)
(* (handleBackgroundUpload) begun so far, running.handlers the request     *)
(* handlers begun so far, running.calls the calls of fetchWithTimeout made *)
(* so far, each with the place it is suspended at (pc) and its local       *)
(* variables, running.activation the activate event being handled.         *)

NoActivation ==
    [pc |-> "idle", before |-> {}, doomed |-> {}, failed |-> {}, returned |-> FALSE,
     claim |-> "no"]

NoRunning == [passes |-> <<>>, handlers |-> <<>>, calls |-> <<>>, activation |-> NoActivation]

(* A replay pass: pc "opened" after `await openDB(...)`, "loop" between    *)
(* two iterations of the for loop over the items getAll returned, "done"   *)
(* when the function has returned.  from and upto are the numbers of       *)
(* requests answered 202 when the pass began and when it ended.            *)

Pass(pc, requests, sent, from, upto) ==
    [pc |-> pc, requests |-> requests, sent |-> sent, from |-> from, upto |-> upto]

MaxPasses == 2

(* sync event 'background-upload': handleBackgroundUpload up to its first await *)
ReplayBegin ==
    LET opened == openDB(db, 1, "none")
    IN  /\ Len(running.passes) < MaxPasses
        /\ db' = opened.db
        /\ running' = [running EXCEPT !.passes =
                          Append(@, Pass(IF opened.ok THEN "opened" ELSE "done",
                                         <<>>, <<>>, Len(promised), Len(promised)))]
        /\ last' = [NoLast EXCEPT !.op = "sync-begin", !.before = DOMAIN caches]
        /\ UNCHANGED <<caches, posted, promised, hist, maxItems, server, page>>

(* a suspended pass runs to its next await: from "opened" it lists the     *)
(* store (or throws into the outer catch), from "loop" it re-issues the    *)
(* next item of its list, removes it and notifies if the answer is ok.     *)
(* hist lists the ids of the items whose replay the server answered ok.    *)

(* the replay as handleBackgroundUpload is written to work: the pass lists *)
(* the requests answered 202 that no replay has removed yet                *)
ReplayStep_working ==
    \E i \in 1..Len(running.passes), srv \in {"ok", "notok", "fail"}, clients \in 0..MaxClients :
        LET pass == running.passes[i]
            removed == {hist[k] : k \in 1..Len(hist)}
            all == [k \in 1..Len(promised) |->
                       [id |-> k, url |-> promised[k].url, method |-> promised[k].method,
                        body |-> promised[k].body]]
            items == SelectSeq(all, LAMBDA it : it.id \notin removed)
            r == replayLoop(<<Head(pass.requests)>>, db, posted, pass.sent, srv, clients)
            next == IF pass.pc = "opened"
                    THEN IF items # <<>>
                         THEN Pass("loop", items, <<>>, pass.from, Len(promised))
                         ELSE Pass("done", <<>>, <<>>, pass.from, Len(promised))
                    ELSE Pass(IF Len(pass.requests) > 1 THEN "loop" ELSE "done",
                              Tail(pass.requests), r.sent, pass.from, Len(promised))
        IN  /\ pass.pc \in {"opened", "loop"}
            /\ running' = [running EXCEPT !.passes[i] = next]
            /\ db' = IF pass.pc = "loop" THEN r.db ELSE db
            /\ posted' = IF pass.pc = "loop" THEN r.posted ELSE posted
            /\ hist' = IF pass.pc = "loop" /\ srv = "ok"
                       THEN Append(hist, Head(pass.requests).id) ELSE hist
            /\ last' = [NoLast EXCEPT !.op = "sync-step", !.srv = srv, !.clients = clients,
                                       !.before = DOMAIN caches]
            /\ UNCHANGED <<caches, promised, maxItems, server, page>>

ReplayStep ==
    \E i \in 1..Len(running.passes), srv \in {"ok", "notok", "fail"}, clients \in 0..MaxClients :
        LET pass == running.passes[i]
            listed == "requests" \in db.stores /\ TxHasStoreMember
            r == replayLoop(<<Head(pass.requests)>>, db, posted, pass.sent, srv, clients)
            next == IF pass.pc = "opened"
                    THEN IF listed /\ db.items # <<>>
                         THEN Pass("loop", db.items, <<>>, pass.from, Len(promised))
                         ELSE Pass("done", <<>>, <<>>, pass.from, Len(promised))
                    ELSE Pass(IF Len(pass.requests) > 1 THEN "loop" ELSE "done",
                              Tail(pass.requests), r.sent, pass.from, Len(promised))
        IN  /\ pass.pc \in {"opened", "loop"}
            /\ running' = [running EXCEPT !.passes[i] = next]
            /\ db' = IF pass.pc = "loop" THEN r.db ELSE db
            /\ posted' = IF pass.pc = "loop" THEN r.posted ELSE posted
            /\ hist' = IF pass.pc = "loop" /\ srv = "ok"
                       THEN Append(hist, Head(pass.requests).id) ELSE hist
            /\ last' = [NoLast EXCEPT !.op = "sync-step", !.srv = srv, !.clients = clients,
                                       !.before = DOMAIN caches]
            /\ UNCHANGED <<caches, promised, maxItems, server, page>>

----------------------------------------------------------------------------
(* The Express server, POST /api/upload.  multer (upload.fields) writes    *)
(* every file part of the request into UPLOAD_DIR before the route handler *)
(* runs.  server = [dir, timers, next, last]: dir is the set of files in   *)
(* UPLOAD_DIR, a file being [field, id]; each element of timers is the set *)
(* of files a pending setTimeout callback will unlink; next numbers the    *)
(* requests (the unique suffix of the file names).  fs.unlink is taken to  *)
(* succeed.                                                                *)

NoServer == [dir |-> {}, timers |-> {}, next |-> 1,
             last |-> [status |-> 0, error |-> "", files |-> {}, apiKey |-> ""],
             issued |-> "",
             callback |-> [status |-> 0, to |-> "", code |-> "", state |-> "", issued |-> ""]]

(* API_SECRET and the keys a request may carry in x-api-key ("" is none). *)

API_SECRET == "your-secret-key"

ApiKeys == {"", "some-other-key", API_SECRET}

validateApiKey(apiKey) ==
    IF apiKey = "" \/ apiKey # API_SECRET
    THEN [status |-> 401, error |-> "Invalid or missing API key"]
    ELSE [status |-> 0, error |-> ""]

(* the middleware a POST /api/upload passes before the route handler:     *)
(* app.use('/api/', limiter), app.use('/api/upload', uploadLimiter), the   *)
(* body parsers and the route's own upload.fields.  validateApiKey is      *)
(* defined but mounted on no route.                                        *)

UploadMiddleware == {"limiter", "uploadLimiter", "express.json", "express.urlencoded", "upload.fields"}

UploadedFile(field, id) == [field |-> field, id |-> id]

(* req.body.data: "valid" is JSON with a documentType, "noType" JSON       *)
(* without one, "unparsable" text JSON.parse throws on (or no data field), *)
(* "null" the JSON text null, on which the destructuring of parsedData     *)
(* throws a TypeError that the outer catch turns into a 500.               *)

UploadDataKinds == {"valid", "noType", "unparsable", "null"}

(* the route handler: [status, error, timer] for the file parts received,  *)
(* timer being the set of files whose cleanup it schedules.                *)

uploadHandler(parts, data, id) ==
    IF "document" \notin parts
    THEN [status |-> 400, error |-> "Document image is required", timer |-> {}]
    ELSE IF data = "unparsable"
    THEN [status |-> 400, error |-> "Invalid data format", timer |-> {}]
    ELSE IF data = "null"
    THEN [status |-> 500, error |-> "Verification processing failed", timer |-> {}]
    ELSE IF data = "noType"
    THEN [status |-> 400, error |-> "Document type is required", timer |-> {}]
    ELSE [status |-> 200, error |-> "",
          timer |-> {UploadedFile(f, id) : f \in parts}]

MaxUploads == 3

UploadRequest ==
    \E parts \in SUBSET {"document", "face"}, data \in UploadDataKinds, apiKey \in ApiKeys :
        LET id == server.next
            auth == IF "validateApiKey" \in UploadMiddleware THEN validateApiKey(apiKey)
                    ELSE [status |-> 0, error |-> ""]
            written == {UploadedFile(f, id) : f \in parts}
            r == uploadHandler(parts, data, id)
        IN  /\ server.next <= MaxUploads
            /\ server' = IF auth.status # 0
                         THEN [server EXCEPT !.next = id + 1,
                                             !.last = [status |-> auth.status, error |-> auth.error,
                                                       files |-> {}, apiKey |-> apiKey]]
                         ELSE [server EXCEPT
                                 !.dir = server.dir \cup written,
                                 !.timers = IF r.timer = {} THEN server.timers
                                            ELSE server.timers \cup {r.timer},
                                 !.next = id + 1,
                                 !.last = [status |-> r.status, error |-> r.error,
                                           files |-> written, apiKey |-> apiKey]]
            /\ UNCHANGED <<running, caches, db, posted, promised, hist, maxItems, last, page>>

(* the setTimeout callback of a successful upload, 5 s after it was set *)
CleanupTimeout ==
    \E t \in server.timers :
        /\ server' = [server EXCEPT !.dir = @ \ t, !.timers = @ \ {t}]
        /\ UNCHANGED <<running, caches, db, posted, promised, hist, maxItems, last, page>>

(* The DigiLocker routes.  GET /api/digilocker draws a random state, sets  *)
(* it on req.session of this request and redirects to DigiLocker.  No      *)
(* session middleware is mounted (the app.use calls are helmet, cors,      *)
(* compression, the rate limiter and the body parsers), so req.session is  *)
(* a property of the one request object and a later request starts without *)
(* it.  server.issued observes the state last handed out; the server       *)
(* itself keeps nothing.  "" stands for a query parameter that is missing. *)

OAuthStates == {"s1", "s2"}

RequestSession == "undefined"

digilockerCallback(code, state, session) ==
    LET digilockerState == IF session = "undefined" THEN "undefined" ELSE session
    IN  IF state = "" \/ state # digilockerState
        THEN [status |-> 400, to |-> "Invalid state parameter"]
        ELSE IF code = ""
        THEN [status |-> 400, to |-> "Authorization code not received"]
        ELSE [status |-> 302, to |-> "/?digilocker=success"]

DigiLockerRequest ==
    \E state \in OAuthStates :
        /\ server' = [server EXCEPT !.issued = state]
        /\ UNCHANGED <<running, caches, db, posted, promised, hist, maxItems, last, page>>

DigiLockerCallback ==
    \E code \in {"", "c1"}, state \in {""} \cup OAuthStates :
        LET res == digilockerCallback(code, state, RequestSession)
        IN  /\ server' = [server EXCEPT !.callback = [status |-> res.status, to |-> res.to,
                                                      code |-> code, state |-> state,
                                                      issued |-> server.issued]]
            /\ UNCHANGED <<running, caches, db, posted, promised, hist, maxItems, last, page>>

----------------------------------------------------------------------------
(* The page (app.js).  page holds navigator.onLine, the two AppState       *)
(* fields the verification flow reads, the module variable db and the two  *)
(* object stores behind it, the uploads the server accepted and the        *)
(* results shown to the user.  initApp sets up the event listeners only:   *)
(* it never calls initDatabase, so db starts and stays null.               *)

DocumentTypes == {"aadhaar", "pan", "passport"}

VerificationData(documentType, n) == [documentType |-> documentType, capture |-> n]

initApp(onLine) ==
    [onLine |-> onLine, isOffline |-> ~onLine, retryQueue |-> <<>>,
     db |-> "null", verifications |-> <<>>, retry_queue |-> <<>>, nextKey |-> 1,
     uploaded |-> <<>>, attempts |-> <<>>, shown |-> <<>>, lastEvent |-> ""]

NoPage == initApp(TRUE)

UploadOutcomes == {"ok", "fail"}

storeVerificationOffline(p, data) ==
    IF p.db = "null" THEN p
    ELSE [p EXCEPT !.verifications = Append(@, [data |-> data, status |-> "pending", offline |-> TRUE])]

addToRetryQueue(p, data) ==
    IF p.db = "null" THEN p
    ELSE [p EXCEPT !.retry_queue = Append(@, [id |-> p.nextKey, data |-> data, retries |-> 0]),
                   !.nextKey = @ + 1]

StoreDelete(store, id) == SelectSeq(store, LAMBDA it : it.id # id)

StorePut(store, item) ==
    IF \E i \in 1..Len(store) : store[i].id = item.id
    THEN [i \in 1..Len(store) |-> IF store[i].id = item.id THEN item ELSE store[i]]
    ELSE Append(store, item)

(* the loop of processRetryQueue over the items getAll returned; up is the *)
(* outcome of uploadVerificationData during this pass, and attempts lists  *)
(* the calls of uploadVerificationData the loop has made.                  *)

RECURSIVE retryLoop(_, _, _, _)
retryLoop(p, items, i, up) ==
    IF i > Len(items) THEN p
    ELSE LET item == items[i]
             retried == [item EXCEPT !.retries = @ + 1]
             q == [p EXCEPT !.attempts = Append(@, [data |-> item.data, outcome |-> up])]
         IN  IF up = "ok"
             THEN retryLoop([q EXCEPT !.uploaded = Append(@, item.data),
                                      !.retry_queue = StoreDelete(@, item.id)],
                            items, i + 1, up)
             ELSE IF retried.retries < 3
             THEN retryLoop([q EXCEPT !.retry_queue = StorePut(@, retried)], items, i + 1, up)
             ELSE retryLoop([q EXCEPT !.retry_queue = StoreDelete(@, item.id)], items, i + 1, up)

processRetryQueue(p, up) ==
    IF p.db = "null" \/ p.isOffline THEN p
    ELSE retryLoop(p, p.retry_queue, 1, up)

updateNetworkStatus(p, up) ==
    LET wasOffline == p.isOffline
        q == [p EXCEPT !.isOffline = ~p.onLine]
    IN  IF q.isOffline THEN q
        ELSE IF wasOffline /\ Len(q.retryQueue) > 0 THEN processRetryQueue(q, up)
        ELSE q

processVerification(p, data, up) ==
    IF p.isOffline
    THEN LET q == addToRetryQueue(storeVerificationOffline(p, data), data)
         IN  [q EXCEPT !.shown = Append(@, [success |-> TRUE, offline |-> TRUE, data |-> data])]
    ELSE IF up = "ok"
    THEN [p EXCEPT !.uploaded = Append(@, data),
                   !.shown = Append(@, [success |-> TRUE, offline |-> FALSE, data |-> data])]
    ELSE [p EXCEPT !.shown = Append(@, [success |-> FALSE, offline |-> FALSE, data |-> data])]

MaxVerifications == 3

PageUnchanged == UNCHANGED <<running, caches, db, posted, promised, hist, maxItems, last, server>>

ProcessVerification ==
    \E documentType \in DocumentTypes, up \in UploadOutcomes :
        /\ Len(page.shown) < MaxVerifications
        /\ page' = [processVerification(page, VerificationData(documentType, Len(page.shown) + 1), up)
                        EXCEPT !.lastEvent = "verify"]
        /\ PageUnchanged

(* the window's online and offline events, both bound to updateNetworkStatus *)
OnlineEvent ==
    \E up \in UploadOutcomes :
        /\ ~page.onLine
        /\ page' = [updateNetworkStatus([page EXCEPT !.onLine = TRUE], up)
                        EXCEPT !.lastEvent = IF up = "ok" THEN "online" ELSE "online-upload-fails"]
        /\ PageUnchanged

OfflineEvent ==
    /\ page.onLine
    /\ page' = [updateNetworkStatus([page EXCEPT !.onLine = FALSE], "fail")
                    EXCEPT !.lastEvent = "offline"]
    /\ PageUnchanged

(* the click listener of retry-sync-btn *)
RetrySyncClick ==
    \E up \in UploadOutcomes :
        /\ page' = [(IF ~page.isOffline THEN processRetryQueue(page, up) ELSE page)
                        EXCEPT !.lastEvent = IF up = "ok" THEN "retry" ELSE "retry-upload-fails"]
        /\ PageUnchanged

----------------------------------------------------------------------------
(* Specifications.  The stores are durable: a worker starts with whatever  *)
(* earlier runs left in them.                                              *)

InitWith(C) ==
    /\ caches \in C
    /\ db = NoDb
    /\ posted = <<>>
    /\ promised = <<>>
    /\ hist = <<>>
    /\ maxItems = 0
    /\ last = NoLast
    /\ server = NoServer
    /\ page = NoPage
    /\ running = NoRunning

(* Spec: the network-first side.  Requests that the listener hands to      *)
(* handleApiRequest or handleDynamicRequest or does not answer, CACHE_URLS *)
(* messages and sync events, from empty storage.                           *)

NetworkFirstRequests ==
    {Req("GET", Local(p), dest, "") : p \in {PATH_UPLOAD, PATH_PAGE}, dest \in {"document", ""}}
    \cup {Req(m, Local(PATH_UPLOAD), "", "b1") : m \in MutatingMethods}
    \cup {Req("POST", Local(PATH_UPLOAD), "", ""), Req("POST", Local(PATH_PAGE), "", "b1")}

Init == InitWith({NoCaches})

NetworkFirstFetch == FetchEvent(NetworkFirstRequests, NetOutcomes)

Next == NetworkFirstFetch \/ CacheUrlsMessage \/ SyncEvent

Spec == Init /\ [][Next]_vars

(* SpecAged: the same events and an install, starting with the dynamic     *)
(* store at its limit, filled by earlier GETs of /page?1 .. /page?100.     *)

AgedCaches ==
    CACHE_DYNAMIC :> [i \in 1..LIMIT_DYNAMIC |->
                        [url |-> Url(SELF_HOST, SELF_PORT, PATH_PAGE, i),
                         resp |-> Resp(200, "server", "v1", "")]]

InitAged == InitWith({AgedCaches})

AgedRequests ==
    {Req("GET", Local(p), "", "") : p \in {PATH_UPLOAD, PATH_PAGE}}

AgedFetch == FetchEvent(AgedRequests, NetOutcomes)

NextAged == AgedFetch \/ CacheUrlsMessage \/ InstallEvent

SpecAged == InitAged /\ [][NextAged]_vars

(* SpecCacheFirst: requests handled by handleStaticAsset and               *)
(* handleImageRequest, and installs, from empty storage.                   *)

CacheFirstRequests ==
    {Req("GET", Local(p), dest, "") : p \in {PATH_INDEX, PATH_LOGO}, dest \in {"document", ""}}

CacheFirstFetch == FetchEvent(CacheFirstRequests, NetOutcomes)

NextCacheFirst == CacheFirstFetch \/ InstallEvent

SpecCacheFirst == Init /\ [][NextCacheFirst]_vars

(* SpecNavigate: full-page navigations (GET, destination 'document') to a  *)
(* URL of each category.                                                   *)

NavigationRequests ==
    {Req("GET", Local(p), "document", "") :
        p \in {PATH_INDEX, PATH_LOGO, PATH_UPLOAD, PATH_PAGE}}

NavigationFetch == FetchEvent(NavigationRequests, NetOutcomes)

NextNavigate == NavigationFetch

SpecNavigate == Init /\ [][NextNavigate]_vars

(* SpecRoute: requests of several methods to paths of every shape on the   *)
(* worker's origin, on the worker's host at another port and on another    *)
(* host, with a server that answers 404.                                   *)

RoutePaths ==
    {PATH_ROOT, PATH_INDEX, PATH_CSS, PATH_APPJS, PATH_MANIFEST, PATH_LOGO,
     PATH_UPLOAD, PATH_PAGE,
     <<"/", "api", "/", "data", ".json">>, <<"/", "api", "/", "photo", ".jpg">>,
     <<"/", "shot", ".jpeg">>, <<"/", "pic", ".webp">>, <<"/", "art", ".svg">>,
     <<"/", "favicon", ".ico">>, <<"/", "api">>, <<"/", "apiary">>,
     <<"/", "docs", "/", "api", "/", "v1">>}

RouteOrigins == {<<SELF_HOST, SELF_PORT>>, <<SELF_HOST, "3010">>, <<"cdn", SELF_PORT>>}

RouteRequests ==
    {Req(m, Url(o[1], o[2], p, 0), "", IF m = "GET" THEN "" ELSE "b1") :
        m \in {"GET", "HEAD"} \cup MutatingMethods, o \in RouteOrigins, p \in RoutePaths}

RouteFetch == FetchEvent(RouteRequests, {Net("response", 404, "not-found")})

NextRoute == RouteFetch

SpecRoute == Init /\ [][NextRoute]_vars

(* SpecActivate: activation over any storage made of current, stale,       *)
(* look-alike and foreign cache stores.                                    *)

OLD_STATIC == CACHE_PREFIX \o <<"-static-", "0.9.0">>
OLD_DYNAMIC == CACHE_PREFIX \o <<"-dynamic-", "0.9.0">>
LOOKALIKE == CACHE_PREFIX \o <<"2", "-static-">> \o SW_VERSION
OTHER_APP == <<"other-app", "-static-">> \o SW_VERSION

StoreNames == {CACHE_STATIC, CACHE_DYNAMIC, CACHE_IMAGES, OLD_STATIC, OLD_DYNAMIC,
               LOOKALIKE, OTHER_APP}

StoreContents == {<<>>, <<[url |-> Local(PATH_INDEX), resp |-> Resp(200, "server", "v1", "")]>>}

InitActivate == InitWith(UNION {[S -> StoreContents] : S \in SUBSET StoreNames})

NextActivate == ActivateEvent

SpecActivate == InitActivate /\ [][NextActivate]_vars

(* SpecTrim: one store, puts of keys /page?1 .. /page?NumKeys, each        *)
(* followed by limitCacheSize with the maxItems chosen at the start.       *)

NumKeys == 4
MaxPuts == 5
MaxTrimLimit == 3

TrimKey(k) == Url(SELF_HOST, SELF_PORT, PATH_PAGE, k)

InitTrim ==
    /\ caches = NoCaches
    /\ db = NoDb
    /\ posted = <<>>
    /\ promised = <<>>
    /\ hist = <<>>
    /\ maxItems \in 1..MaxTrimLimit
    /\ last = NoLast
    /\ server = NoServer
    /\ page = NoPage
    /\ running = NoRunning

PutThenTrim ==
    \E k \in 1..NumKeys :
        LET c1 == CachesOpen(caches, CACHE_DYNAMIC)
        IN  /\ Len(hist) < MaxPuts
            /\ caches' = limitCacheSize(
                            [c1 EXCEPT ![CACHE_DYNAMIC] =
                                CachePut(@, TrimKey(k), Resp(200, "server", "v1", ""))],
                            CACHE_DYNAMIC, maxItems)
            /\ hist' = Append(hist, TrimKey(k))
            /\ last' = [NoLast EXCEPT !.op = "put-trim", !.before = DOMAIN caches]
            /\ UNCHANGED <<running, server, page, db, posted, promised, maxItems>>

NextTrim == PutThenTrim

SpecTrim == InitTrim /\ [][NextTrim]_vars

----------------------------------------------------------------------------
(* Claims C1 - C10 *)

CurrentStores == {CACHE_STATIC, CACHE_DYNAMIC, CACHE_IMAGES}

StoreOf(handler) == IF handler = "static" THEN CACHE_STATIC ELSE CACHE_IMAGES

Entries(c, name) == IF name \in DOMAIN c THEN c[name] ELSE <<>>

\* C1: a GET handed to handleStaticAsset or handleImageRequest whose store holds
\* an entry matching the request is answered with exactly that entry's
\* response, and the handler makes no network fetch and no cache write.
C1_CacheHitServedWithoutNetwork ==
    [][(/\ last'.op = "fetch"
        /\ last'.handler \in {"static", "image"}
        /\ CacheMatch(Entries(caches, StoreOf(last'.handler)), last'.req) # NoResponse)
       => /\ last'.out = Answered(CacheMatch(Entries(caches, StoreOf(last'.handler)), last'.req))
          /\ last'.fetches = 0
          /\ last'.puts = 0
          /\ caches' = caches]_vars

C1_Witness ==
    /\ last.op = "fetch"
    /\ last.handler = "static"
    /\ last.hit
    /\ last.out = Answered(CacheMatch(Entries(caches, CACHE_STATIC), last.req))
    /\ last.out.resp.body = "v2"

Inserted(h) == {h[i] : i \in 1..Len(h)}

LastPut(h, k) == CHOOSE i \in 1..Len(h) : h[i] = k /\ \A j \in (i + 1)..Len(h) : h[j] # k

MostRecent(h, n) ==
    {k \in Inserted(h) :
        Cardinality({j \in Inserted(h) : LastPut(h, j) > LastPut(h, k)}) < n}

\* C2: for one store and puts each followed by limitCacheSize(name, maxItems),
\* after every trim the store holds at most maxItems entries and its keys are
\* exactly the maxItems most recently inserted keys.
C2_TrimKeepsMostRecent ==
    LET keys == CacheKeys(Entries(caches, CACHE_DYNAMIC))
    IN  last.op = "put-trim"
        => /\ Len(keys) <= maxItems
           /\ Inserted(keys) = MostRecent(hist, maxItems)
           /\ \A i, j \in 1..Len(keys) : i < j => LastPut(hist, keys[i]) < LastPut(hist, keys[j])

C2_Witness ==
    /\ last.op = "put-trim"
    /\ Cardinality(Inserted(hist)) > maxItems
    /\ Len(Entries(caches, CACHE_DYNAMIC)) = maxItems
    /\ maxItems > 1
    /\ \E i, j \in 1..Len(hist) : i < j /\ hist[i] = hist[j]

\* C3: after any sequence of intercepted requests, CACHE_URLS messages and
\* installs, every current-version store holds at most its configured limit.
C3_StoresWithinLimits ==
    \A name \in CurrentStores : Len(Entries(caches, name)) <= CACHE_LIMITS(name)

QueuedFor(items, req) ==
    {i \in 1..Len(items) :
        items[i].url = req.url /\ items[i].method = req.method /\ items[i].body = req.body}

\* C4: a POST to an API URL whose timed fetch fails is answered with the
\* synthetic 202 response and the sync queue holds exactly one more item, with
\* the url, method and body of the failed request.
C4_FailedPostIsQueued ==
    [][(/\ last'.op = "fetch"
        /\ last'.req.method = "POST"
        /\ isApiRequest(last'.req.url)
        /\ NetFailed(last'.net))
       => /\ last'.out = Answered(SyntheticQueued)
          /\ Len(db'.items) = Len(db.items) + 1
          /\ Len(db'.items) \in QueuedFor(db'.items, last'.req)]_vars

Accepted == {promised[i] : i \in 1..Len(promised)}

SuccessMessages(url) ==
    {i \in 1..Len(posted) : posted[i].type = "SYNC_SUCCESS" /\ posted[i].url = url}

\* C5: when a replay pass in which the server answers ok has ended, with a
\* client window open, every request that was accepted for background sync
\* has been re-issued, is removed from the sync queue and has been announced
\* by a SYNC_SUCCESS notification carrying its url.
C5_ReplaySuccessRemovesAndNotifies ==
    (last.op = "sync" /\ last.srv = "ok" /\ last.clients >= 1)
    => \A req \in Accepted :
          /\ \E i \in 1..Len(last.sent) : last.sent[i].url = req.url
          /\ QueuedFor(db.items, req) = {}
          /\ SuccessMessages(req.url) # {}

RetryCount(item) == IF "retryCount" \in DOMAIN item THEN item.retryCount ELSE 0

\* C6: when a replay pass in which every replay fails (network error or non-ok
\* response) has ended, every request that was accepted for background sync
\* and never announced as synced is still in the sync queue, with a retryCount
\* of at least 1, and the pass produced no notification for it.
C6_ReplayFailureKeepsItemCountsRetry ==
    (last.op = "sync" /\ last.srv \in {"notok", "fail"})
    => \A req \in Accepted :
          SuccessMessages(req.url) = {}
          => \E i \in QueuedFor(db.items, req) : RetryCount(db.items[i]) >= 1

IsStale(name) == StartsWith(name, CACHE_PREFIX) /\ name \notin CurrentStores

NavigationFailedUncached ==
    /\ last.op = "fetch"
    /\ last.req.dest = "document"
    /\ last.handler # "none"
    /\ NetFailed(last.net)
    /\ \A name \in DOMAIN caches : CacheMatch(caches[name], last.req) = NoResponse

Extension(url) == IF url.path = <<>> THEN "" ELSE url.path[Len(url.path)]

UnderApi(url) ==
    Len(url.path) >= 3 /\ url.path[1] = "/" /\ url.path[2] = "api" /\ url.path[3] = "/"

RuleCategory(url, foreign) ==
    IF Extension(url) \in {".html", ".css", ".js", ".json"} \/ url.path = <<"/">> THEN "static"
    ELSE IF Extension(url) \in {".png", ".jpg", ".jpeg", ".webp", ".svg", ".ico"} THEN "image"
    ELSE IF UnderApi(url) \/ foreign THEN "api"
    ELSE "dynamic"

ForeignOrigin(url) == url.host # SELF_HOST \/ url.port # SELF_PORT

ForeignHost(url) == url.host # SELF_HOST

\* C9 as stated: for every request the handler chosen by the fetch listener is
\* the one of the category the first-match rules give, api being a path under
\* /api/ or a foreign origin.
C9_HandlerFollowsRulesForEveryRequest ==
    last.op = "fetch" => last.handler = RuleCategory(last.req.url, ForeignOrigin(last.req.url))

\* C9 amended: for every GET request, and every PUT, PATCH or DELETE request to
\* an api URL, the handler is the one of the first-match category, api being a
\* path under /api/ or a foreign host name; a POST to an api URL goes to the api
\* handler whatever its path; any other non-GET request gets no handler.
C9_HandlerFollowsRulesByMethod ==
    last.op = "fetch"
    => LET url == last.req.url
           api == UnderApi(url) \/ ForeignHost(url)
       IN  IF last.req.method # "GET" /\ ~api THEN last.handler = "none"
           ELSE IF last.req.method = "POST" THEN last.handler = "api"
           ELSE last.handler = RuleCategory(url, ForeignHost(url))

C9_Witness ==
    /\ last.op = "fetch"
    /\ last.req.method = "GET"
    /\ UnderApi(last.req.url)
    /\ Extension(last.req.url) = ".json"
    /\ last.handler = "static"

\* C10: a request of a body-mutating method (POST, PUT, PATCH, DELETE) whose
\* network fetch fails never gives the caller an error: it is answered with
\* the synthetic 202 response and appended to the sync queue.  Stated for the
\* requests to an API URL, the ones the listener hands to a handler.
C10_FailedMutationIsQueuedNotRejected ==
    (/\ last.op = "fetch"
     /\ last.req.method \in MutatingMethods
     /\ isApiRequest(last.req.url)
     /\ NetFailed(last.net))
    => /\ last.out = Answered(SyntheticQueued)
       /\ QueuedFor(db.items, last.req) # {}

----------------------------------------------------------------------------
(* Claims C11 - C20 *)

\* C11: the synthetic 202 'queued' response is returned only when the request
\* is actually in the sync queue; when persisting it fails the caller gets the
\* original failure of the request.
C11_QueuedResponseOnlyWhenStored ==
    (last.op = "fetch" /\ last.out = Answered(SyntheticQueued))
    => /\ "queue" \in {last.steps[i] : i \in 1..Len(last.steps)}
       /\ \E i \in 1..Len(db.items) : db.items[i].url = last.req.url

NetworkFirstRead(l) ==
    /\ l.op = "fetch"
    /\ l.req.method = "GET"
    /\ l.handler \in {"api", "dynamic"}
    /\ NetFailed(l.net)

Marked(resp) == [resp EXCEPT !.servedBy = "cache-offline"]

\* C12 as stated: a GET served by handleApiRequest or handleDynamicRequest whose
\* fetch fails is answered with the matching entry of the dynamic cache plus the
\* served-from-cache marker header, and rejected when no entry matches.
C12_OfflineReadIsMarkedOrFails ==
    [][NetworkFirstRead(last')
       => LET found == CacheMatch(Entries(caches, CACHE_DYNAMIC), last'.req)
          IN  IF found # NoResponse
              THEN last'.out = Answered(Marked(found))
              ELSE last'.out = Rejected]_vars

\* C12 amended: such a GET is answered with the matching entry of the dynamic
\* cache, carrying the marker header X-Served-By: cache-offline when the
\* request was served by handleApiRequest and as stored, without a marker,
\* when it was served by handleDynamicRequest; it is rejected with the fetch
\* error when no entry matches.
C12_OfflineReadMarkedByApiHandlerOnly ==
    [][NetworkFirstRead(last')
       => LET found == CacheMatch(Entries(caches, CACHE_DYNAMIC), last'.req)
          IN  IF found = NoResponse THEN last'.out = Rejected
              ELSE IF last'.handler = "api" THEN last'.out = Answered(Marked(found))
              ELSE last'.out = Answered(found) /\ found.servedBy = ""]_vars

C12_Witness ==
    /\ NetworkFirstRead(last)
    /\ last.handler = "api"
    /\ last.hit
    /\ last.out.kind = "response"
    /\ last.out.resp.servedBy = "cache-offline"
    /\ last.out.resp.body = "v2"

\* C13: a request served by handleApiRequest or handleDynamicRequest makes its
\* network fetch before any cache lookup, and looks into the cache only when
\* that fetch has failed.
C13_FetchFirstCacheReadOnlyAfterFailure ==
    (last.op = "fetch" /\ last.handler \in {"api", "dynamic"})
    => /\ last.steps # <<>> /\ last.steps[1] = "fetch"
       /\ (\E i \in 1..Len(last.steps) : last.steps[i] = "match") => NetFailed(last.net)

Replayed(sent, req) ==
    {i \in 1..Len(sent) :
        sent[i] = [url |-> req.url, method |-> req.method, body |-> req.body]}

\* C14: in a replay pass every request that was accepted for background sync
\* and is still pending (never announced as synced) is re-issued exactly once,
\* whatever happens to the others.
C14_EveryPendingItemReplayedOnce ==
    [][last'.op = "sync"
       => \A req \in Accepted :
             SuccessMessages(req.url) = {} => Cardinality(Replayed(last'.sent, req)) = 1]_vars

\* C15: a replay pass re-issues the pending requests in the order in which
\* they were accepted for background sync, each with its url, method and body.
C15_ReplayInEnqueueOrder ==
    [][(last'.op = "sync" /\ posted = <<>>)
       => last'.sent = [i \in 1..Len(promised) |->
                           [url |-> promised[i].url, method |-> promised[i].method,
                            body |-> promised[i].body]]]_vars

StaticEntry(c, url) ==
    {i \in 1..Len(Entries(c, CACHE_STATIC)) : Entries(c, CACHE_STATIC)[i].url = url}

\* C16 as stated: after install the static cache holds an entry for every
\* manifest URL whose fetch returned ok and for no manifest URL whose fetch
\* failed or returned a non-ok response.
C16_InstallCachesExactlyTheOkUrls ==
    last.op = "install"
    => \A i \in 1..Len(STATIC_CACHE_FILES) :
          i \in last.okAt <=> StaticEntry(caches, STATIC_CACHE_FILES[i]) # {}

\* C16 amended: install completes for any set of failing manifest URLs; after
\* it the static cache holds the fetched response for every manifest URL whose
\* fetch returned ok, and for a manifest URL whose fetch failed it holds what
\* it held before install: the earlier entry if there was one, otherwise none.
C16_InstallCachesOkUrlsKeepsTheRest ==
    [][last'.op = "install"
       => \A i \in 1..Len(STATIC_CACHE_FILES) :
             LET url == STATIC_CACHE_FILES[i]
                 old == CacheMatch(Entries(caches, CACHE_STATIC), Req("GET", url, "", ""))
                 new == CacheMatch(Entries(caches', CACHE_STATIC), Req("GET", url, "", ""))
             IN  /\ Cardinality(StaticEntry(caches', url)) <= 1
                 /\ IF i \in last'.okAt THEN new = Resp(200, "server", "v1", "")
                    ELSE new = old]_vars

C16_Witness ==
    /\ last.op = "install"
    /\ last.okAt # {}
    /\ \E i \in 1..Len(STATIC_CACHE_FILES) :
          /\ i \notin last.okAt
          /\ StaticEntry(caches, STATIC_CACHE_FILES[i]) = {}
    /\ \A i \in last.okAt : StaticEntry(caches, STATIC_CACHE_FILES[i]) # {}

\* C17 as stated: for every fetch event, whatever its method and URL, the
\* listener calls respondWith, handing the request to a strategy handler.
C17_EveryRequestIsAnswered ==
    last.op = "fetch" => last.handler \in {"static", "image", "api", "dynamic"}

\* C17 amended: the listener hands the request to exactly one strategy handler
\* when its method is GET or its URL is an api URL (path under /api/ or foreign
\* host name); for any other request it returns without calling respondWith
\* and no handler runs.
C17_GetAndApiRequestsAreAnswered ==
    last.op = "fetch"
    => IF last.req.method = "GET" \/ UnderApi(last.req.url) \/ ForeignHost(last.req.url)
       THEN last.handler \in {"static", "image", "api", "dynamic"} /\ last.out # NotHandled
       ELSE last.handler = "none" /\ last.out = NotHandled /\ last.steps = <<>>

C17_Witness ==
    /\ last.op = "fetch"
    /\ last.req.method = "DELETE"
    /\ ForeignHost(last.req.url)
    /\ last.handler = "image"
    /\ last.out # NotHandled

\* C18: a request served by handleImageRequest whose network fetch fails and
\* that has no matching entry in the images cache is answered with the
\* placeholder SVG image, not with an error, and nothing is written to the
\* images cache.
C18_FailedImageGetsPlaceholder ==
    [][(/\ last'.op = "fetch"
        /\ last'.handler = "image"
        /\ NetFailed(last'.net)
        /\ CacheMatch(Entries(caches, CACHE_IMAGES), last'.req) = NoResponse)
       => /\ last'.out = Answered(createPlaceholderImage)
          /\ last'.out.resp.ctype = "image/svg+xml"
          /\ last'.puts = 0
          /\ Entries(caches', CACHE_IMAGES) = Entries(caches, CACHE_IMAGES)]_vars

C18_Witness ==
    /\ last.op = "fetch"
    /\ last.handler = "image"
    /\ NetFailed(last.net)
    /\ last.out = Answered(createPlaceholderImage)
    /\ Entries(caches, CACHE_IMAGES) = <<>>

(* SpecServer: the upload endpoint of the Express server and its cleanup   *)
(* timers.                                                                 *)

NextServer == UploadRequest \/ CleanupTimeout \/ DigiLockerRequest \/ DigiLockerCallback

SpecServer == InitWith({NoCaches}) /\ [][NextServer]_vars

(* SpecPage: the page's verification flow and its network events; the page *)
(* may be loaded online or offline.                                        *)

InitPage ==
    /\ caches = NoCaches
    /\ db = NoDb
    /\ posted = <<>>
    /\ promised = <<>>
    /\ hist = <<>>
    /\ maxItems = 0
    /\ last = NoLast
    /\ server = NoServer
    /\ page \in {initApp(onLine) : onLine \in BOOLEAN}
    /\ running = NoRunning

NextPage == ProcessVerification \/ OnlineEvent \/ OfflineEvent \/ RetrySyncClick

SpecPage == InitPage /\ [][NextPage]_vars

\* C19: every file that POST /api/upload wrote into the upload directory is
\* deleted again whatever the answer was: once no cleanup timer is pending,
\* the upload directory holds no file.
C19_UploadedFilesAreDeleted ==
    server.timers = {} => server.dir = {}

InRetryQueue(data) == \E i \in 1..Len(page.retry_queue) : page.retry_queue[i].data = data

Uploaded(data) == \E i \in 1..Len(page.uploaded) : page.uploaded[i] = data

ShownOffline == {page.shown[i].data : i \in {j \in 1..Len(page.shown) : page.shown[j].offline}}

\* C20: a verification whose offline success result has been shown is in the
\* persistent retry queue until it has been uploaded, and once the online
\* event has been handled with the server accepting uploads, every such
\* verification has been uploaded.
C20_OfflineVerificationQueuedThenUploaded ==
    /\ \A data \in ShownOffline : InRetryQueue(data) \/ Uploaded(data)
    /\ page.lastEvent = "online" => \A data \in ShownOffline : Uploaded(data)

----------------------------------------------------------------------------
(* Claims C21 - C30 *)

\* C21: a request to POST /api/upload that carries no API key, or a key
\* different from API_SECRET, is answered 401 and its files are not taken in.
C21_RequestWithoutKeyIsRejected ==
    (server.last.status # 0 /\ server.last.apiKey # API_SECRET)
        => (server.last.status = 401 /\ server.last.files = {})

(* SpecReplay: replay passes interleaved with fetch events for uploads.   *)

UploadRequests == {Req("POST", Local(PATH_UPLOAD), "", b) : b \in {"", "b1", "b2"}}

ReplayFetch == FetchEvent(UploadRequests, {Net("response", 200, "v1"), Net("timeout", 0, "")})

NextReplay == ReplayFetch \/ ReplayBegin \/ ReplayStep

SpecReplay == Init /\ [][NextReplay]_vars

AcceptedDuring(pass) == {promised[k] : k \in (pass.from + 1)..pass.upto}

\* C22: a request that was answered 202 while a replay pass was running is
\* not lost: when that pass has ended the request is pending in the queue,
\* unless a later pass has replayed it with success.
C22_EnqueuedDuringPassStaysPending ==
    \A i \in 1..Len(running.passes) :
        running.passes[i].pc = "done"
        => \A req \in AcceptedDuring(running.passes[i]) :
              QueuedFor(db.items, req) # {} \/ SuccessMessages(req.url) # {}

(* SpecRace: request handlers that store a fetched ok response in the      *)
(* dynamic store, suspended at every await.  A handler task is             *)
(* [kind, url, pc, doomed, listedAt, deletedFresh]: kind "dynamic" is      *)
(* handleDynamicRequest (cache.put, then limitCacheSize: cache.keys, then  *)
(* one cache.delete per key of keys.slice(0, deleteCount)), kind "api" is  *)
(* handleApiRequest for a GET (cache.put only).  The limit is the maxItems *)
(* chosen at the start; hist lists the puts in the order the store         *)
(* performed them.  listedAt is the length of hist when the task listed    *)
(* the keys; deletedFresh records that one of its deletes removed an entry *)
(* put after that listing.                                                 *)

MaxHandlers == 3
RaceKeys == 3
MaxRaceLimit == 2

Task(kind, url, pc, doomed, listedAt, deletedFresh) ==
    [kind |-> kind, url |-> url, pc |-> pc, doomed |-> doomed, listedAt |-> listedAt,
     deletedFresh |-> deletedFresh]

InitRace ==
    /\ caches = NoCaches
    /\ db = NoDb
    /\ posted = <<>>
    /\ promised = <<>>
    /\ hist = <<>>
    /\ maxItems \in 1..MaxRaceLimit
    /\ last = NoLast
    /\ server = NoServer
    /\ page = NoPage
    /\ running = NoRunning

(* a fetch event whose timed fetch has returned an ok response: the        *)
(* handler is suspended before its cache.put                                *)
HandlerBegin ==
    \E kind \in {"dynamic", "api"}, k \in 1..RaceKeys :
        /\ Len(running.handlers) < MaxHandlers
        /\ running' = [running EXCEPT !.handlers =
                          Append(@, Task(kind, TrimKey(k), "put", <<>>, 0, FALSE))]
        /\ last' = [NoLast EXCEPT !.op = "handler-begin", !.handler = kind, !.before = DOMAIN caches]
        /\ UNCHANGED <<caches, db, posted, promised, hist, maxItems, server, page>>

(* a suspended handler performs its next cache operation *)
HandlerStep ==
    \E i \in 1..Len(running.handlers) :
        LET t == running.handlers[i]
            c1 == CachesOpen(caches, CACHE_DYNAMIC)
            keys == CacheKeys(c1[CACHE_DYNAMIC])
            deleteCount == Len(keys) - maxItems
            fresh == \E j \in (t.listedAt + 1)..Len(hist) : hist[j] = Head(t.doomed)
        IN  /\ t.pc \in {"put", "keys", "delete"}
            /\ last' = [NoLast EXCEPT !.op = t.pc, !.handler = t.kind, !.before = DOMAIN caches]
            /\ UNCHANGED <<db, posted, promised, maxItems, server, page>>
            /\ IF t.pc = "put"
               THEN /\ caches' = [c1 EXCEPT ![CACHE_DYNAMIC] =
                                     CachePut(@, t.url, Resp(200, "server", "v1", ""))]
                    /\ hist' = Append(hist, t.url)
                    /\ running' = [running EXCEPT !.handlers[i].pc =
                                      IF t.kind = "dynamic" THEN "keys" ELSE "done"]
               ELSE IF t.pc = "keys"
               THEN /\ caches' = c1
                    /\ hist' = hist
                    /\ running' = [running EXCEPT !.handlers[i] =
                                      IF Len(keys) > maxItems
                                      THEN Task(t.kind, t.url, "delete", SubSeq(keys, 1, deleteCount),
                                                Len(hist), FALSE)
                                      ELSE Task(t.kind, t.url, "done", <<>>, Len(hist), FALSE)]
               ELSE /\ caches' = [c1 EXCEPT ![CACHE_DYNAMIC] = CacheDelete(@, Head(t.doomed))]
                    /\ hist' = hist
                    /\ running' = [running EXCEPT !.handlers[i] =
                                      Task(t.kind, t.url,
                                           IF Len(t.doomed) > 1 THEN "delete" ELSE "done",
                                           Tail(t.doomed), t.listedAt, t.deletedFresh \/ fresh)]

NextRace == HandlerBegin \/ HandlerStep

SpecRace == InitRace /\ [][NextRace]_vars

AllHandlersDone ==
    /\ running.handlers # <<>>
    /\ \A i \in 1..Len(running.handlers) : running.handlers[i].pc = "done"

\* C23: when several request handlers have written to the same store with
\* their cache operations interleaved, the store holds at most maxItems
\* entries once all of them have finished.
C23_WithinLimitWhenHandlersFinished ==
    AllHandlersDone => Len(Entries(caches, CACHE_DYNAMIC)) <= maxItems

Min(a, b) == IF a < b THEN a ELSE b

\* C24: under interleaved handlers a trim never deletes an entry that was put
\* after the trim listed the keys, and once all handlers have finished the
\* store holds no fewer than min(maxItems, number of distinct keys put).
C24_TrimDeletesOnlyListedOldest ==
    /\ \A i \in 1..Len(running.handlers) : ~running.handlers[i].deletedFresh
    /\ AllHandlersDone
       => Len(Entries(caches, CACHE_DYNAMIC)) >= Min(maxItems, Cardinality(Inserted(hist)))

\* C25: a fetch event changes the entries of a cache store only when its
\* timed fetch returned a response, and what it then stores is that response
\* under the request's URL: a fetch that timed out or failed writes nothing.
C25_CacheWrittenOnlyAfterResponse ==
    [][last'.op = "fetch"
       => \A n \in DOMAIN caches' :
             Entries(caches', n) # Entries(caches, n)
             => /\ last'.fetches = 1
                /\ last'.net.kind = "response"
                /\ \E i \in 1..Len(caches'[n]) :
                      /\ caches'[n][i].url = last'.req.url
                      /\ caches'[n][i].resp = NetResponse(last'.net)]_vars

C25_Witness ==
    /\ last.op = "fetch"
    /\ last.fetches = 1
    /\ last.net.kind = "timeout"
    /\ last.handler = "static"
    /\ Entries(caches, CACHE_STATIC) = <<>>
    /\ Entries(caches, CACHE_DYNAMIC) # <<>>

(* SpecTimedFetch: calls of fetchWithTimeout.  A call arms a timer of      *)
(* `timeout` ms, issues one fetch with the controller's signal and is      *)
(* suspended (pc "pending") until the fetch settles: with the network's    *)
(* response ("returned"), with a connection error, or, when the timer      *)
(* fires first and aborts the controller, with the abort error ("thrown"). *)
(* requests counts the network requests the call has issued.  The network  *)
(* need not answer; an armed timer fires when its time has passed, which   *)
(* is the fairness condition.                                              *)

NETWORK_TIMEOUT == 10000

fetchWithTimeout_noAbort(request, timeout) ==
    [request |-> request, timeout |-> timeout, pc |-> "pending", timer |-> "none",
     requests |-> 1, result |-> NoNet]

fetchWithTimeout(request, timeout) ==
    [request |-> request, timeout |-> timeout, pc |-> "pending", timer |-> "armed",
     requests |-> 1, result |-> NoNet]

MaxCalls == 3

TimedUnchanged == UNCHANGED <<caches, db, posted, promised, hist, maxItems, last, server, page>>

(* a handler calls fetchWithTimeout(request) or fetchWithTimeout(request, 5000) *)
TimedFetchBegin ==
    \E timeout \in {5000, NETWORK_TIMEOUT} :
        /\ Len(running.calls) < MaxCalls
        /\ running' = [running EXCEPT !.calls =
                          Append(@, fetchWithTimeout(Req("GET", Local(PATH_UPLOAD), "", ""), timeout))]
        /\ TimedUnchanged

(* the fetch settles by itself: clearTimeout, then return or rethrow *)
NetworkAnswers ==
    \E i \in 1..Len(running.calls),
       net \in {Net("response", 200, "v1"), Net("response", 404, "not-found"), Net("neterror", 0, "")} :
        /\ running.calls[i].pc = "pending"
        /\ running' = [running EXCEPT !.calls[i] =
                          [@ EXCEPT !.pc = IF net.kind = "response" THEN "returned" ELSE "thrown",
                                    !.timer = IF @ = "armed" THEN "cleared" ELSE @,
                                    !.result = net]]
        /\ TimedUnchanged

(* the timer fires: controller.abort() rejects the pending fetch, the catch *)
(* clears the timer and rethrows                                            *)
TimeoutFires ==
    \E i \in 1..Len(running.calls) :
        /\ running.calls[i].pc = "pending"
        /\ running.calls[i].timer = "armed"
        /\ running' = [running EXCEPT !.calls[i] =
                          [@ EXCEPT !.pc = "thrown", !.timer = "fired",
                                    !.result = Net("timeout", 0, "")]]
        /\ TimedUnchanged

NextTimedFetch == TimedFetchBegin \/ NetworkAnswers \/ TimeoutFires

SpecTimedFetch == Init /\ [][NextTimedFetch]_vars /\ WF_vars(TimeoutFires)

CallEnded(i) ==
    /\ i <= Len(running.calls)
    /\ \/ running.calls[i].pc = "returned" /\ running.calls[i].result.kind = "response"
       \/ running.calls[i].pc = "thrown" /\ NetFailed(running.calls[i].result)

\* C26: every call of fetchWithTimeout ends, with a response or with a
\* failure, also when the network never answers, and a call issues exactly
\* one network request whether it ends with a response, an error or a timeout.
C26_TimedFetchEndsAfterOneRequest ==
    /\ [](\A i \in 1..Len(running.calls) : running.calls[i].requests = 1)
    /\ \A i \in 1..MaxCalls : (i <= Len(running.calls)) ~> CallEnded(i)

C26_Witness ==
    \E i \in 1..Len(running.calls) :
        /\ CallEnded(i)
        /\ running.calls[i].result.kind = "timeout"
        /\ running.calls[i].timer = "fired"
        /\ running.calls[i].requests = 1

\* C27: a request accepted for background sync before a replay pass began and
\* not yet announced as synced is re-issued by every later pass: with two
\* finished passes, the later one has attempted every such request again.
C27_PendingItemRetriedByLaterPass ==
    \A i, j \in 1..Len(running.passes) :
        (i < j /\ running.passes[i].pc = "done" /\ running.passes[j].pc = "done")
        => \A k \in 1..running.passes[i].from :
              SuccessMessages(promised[k].url) = {}
              => Replayed(running.passes[j].sent, promised[k]) # {}

(* SpecActivation: the activate event step by step.  The listener calls    *)
(* cleanupOldCaches(), which runs up to `await caches.keys()`, and then    *)
(* clients.claim(), and waits for Promise.all of the two.  When the names  *)
(* are listed, caches.delete is called for every stale name at once; each  *)
(* delete settles on its own, with success or with a failure; the first    *)
(* failure, or the last success, makes cleanupOldCaches return (its catch  *)
(* only logs).  The storage starts with any set of current, stale,         *)
(* look-alike and foreign stores.  Every started operation settles, which  *)
(* is the fairness condition.                                              *)

InitActivation ==
    InitWith(UNION {[S -> {<<[url |-> Local(PATH_INDEX), resp |-> Resp(200, "server", "v1", "")]>>}] :
                        S \in SUBSET StoreNames})

ActivationUnchanged == UNCHANGED <<db, posted, promised, hist, maxItems, last, server, page>>

ActivationBegin ==
    /\ running.activation.pc = "idle"
    /\ running' = [running EXCEPT !.activation =
                      [NoActivation EXCEPT !.pc = "listing", !.before = DOMAIN caches,
                                           !.claim = "requested"]]
    /\ caches' = caches
    /\ ActivationUnchanged

(* caches.keys() has resolved: filter the names, call caches.delete on each *)
CleanupLists ==
    LET doomed == DOMAIN caches \ DOMAIN cleanupOldCaches(caches)
    IN  /\ running.activation.pc = "listing"
        /\ running' = [running EXCEPT !.activation.pc = "deleting",
                                      !.activation.doomed = doomed,
                                      !.activation.returned = (doomed = {})]
        /\ caches' = caches
        /\ ActivationUnchanged

(* one caches.delete settles *)
CacheDeleteSettles ==
    \E cacheName \in running.activation.doomed, ok \in BOOLEAN :
        LET left == running.activation.doomed \ {cacheName}
        IN  /\ caches' = IF ok THEN [n \in DOMAIN caches \ {cacheName} |-> caches[n]] ELSE caches
            /\ running' = [running EXCEPT
                              !.activation.doomed = left,
                              !.activation.failed = IF ok THEN @ ELSE @ \cup {cacheName},
                              !.activation.returned = @ \/ ~ok \/ left = {}]
            /\ ActivationUnchanged

(* clients.claim() settles: the open clients are controlled *)
ClaimCompletes ==
    /\ running.activation.claim = "requested"
    /\ running' = [running EXCEPT !.activation.claim = "done"]
    /\ caches' = caches
    /\ ActivationUnchanged

(* Promise.all([cleanupOldCaches(), clients.claim()]) *)
activationSettled_either(a) == a.returned \/ a.claim = "done"

activationSettled(a) == a.returned /\ a.claim = "done"

(* the promise given to event.waitUntil resolves: the activate phase ends *)
ActivationEnds ==
    /\ running.activation.pc \in {"listing", "deleting"}
    /\ activationSettled(running.activation)
    /\ running' = [running EXCEPT !.activation.pc = "done"]
    /\ caches' = caches
    /\ ActivationUnchanged

NextActivation ==
    ActivationBegin \/ CleanupLists \/ CacheDeleteSettles \/ ClaimCompletes \/ ActivationEnds

SpecActivation ==
    /\ InitActivation
    /\ [][NextActivation]_vars
    /\ WF_vars(CleanupLists) /\ WF_vars(CacheDeleteSettles)
    /\ WF_vars(ClaimCompletes) /\ WF_vars(ActivationEnds)

StaleLeft == {name \in DOMAIN caches : IsStale(name)}

\* C28: on activation no client is claimed while a stale cache still exists:
\* when clients.claim() has finished, every stale cache has been deleted.
C28_ClaimOnlyAfterStaleCachesDeleted ==
    running.activation.claim = "done" => StaleLeft = {}

\* C28 (as the code has it): the claim is started with the cleanup and may
\* finish first; it is the activate phase that ends only after the clients
\* are claimed and the cleanup has returned, with every stale cache deleted
\* unless a deletion failed.
C28_ActivationEndsAfterClaimAndCleanup ==
    /\ running.activation.pc # "idle" => running.activation.claim # "no"
    /\ running.activation.pc = "done"
       => /\ running.activation.claim = "done"
          /\ running.activation.returned
          /\ running.activation.failed = {} => StaleLeft = {}

C28_Witness ==
    /\ running.activation.pc = "done"
    /\ running.activation.failed = {}
    /\ {OLD_STATIC, OLD_DYNAMIC, CACHE_STATIC} \subseteq running.activation.before
    /\ StaleLeft = {}

InNamespace(name) ==
    /\ Len(name) = 3
    /\ name[1] = CACHE_PREFIX[1]
    /\ name[2] \in {"-static-", "-dynamic-", "-images-"}

ActivationCompletes == (running.activation.pc # "idle") ~> (running.activation.pc = "done")

OthersDeleted ==
    (running.activation.pc = "done" /\ running.activation.doomed = {})
    => StaleLeft \subseteq running.activation.failed

\* C29: activation leaves every store unchanged whose name is not of the form
\* '{prefix}-{category}-{tag}' of this namespace (another application's store,
\* a store whose name only begins with the prefix), and when one deletion
\* fails activation still completes and the other stale stores are deleted.
C29_OnlyNamespaceStoresDeleted ==
    /\ [][\A name \in DOMAIN caches :
             ~InNamespace(name) => name \in DOMAIN caches' /\ caches'[name] = caches[name]]_vars
    /\ []OthersDeleted
    /\ ActivationCompletes

\* C29 (as the code has it): activation leaves unchanged every store whose
\* name does not start with the prefix and every current store; a store whose
\* name merely starts with the prefix is deleted like a stale one; when one
\* deletion fails activation still completes and the other stale stores are
\* deleted.
C29_OnlyPrefixedStoresDeleted ==
    /\ [][\A name \in DOMAIN caches :
             (~StartsWith(name, CACHE_PREFIX) \/ name \in CurrentStores)
             => name \in DOMAIN caches' /\ caches'[name] = caches[name]]_vars
    /\ []OthersDeleted
    /\ ActivationCompletes

C29_Witness ==
    /\ running.activation.pc = "done"
    /\ running.activation.doomed = {}
    /\ running.activation.failed = {OLD_STATIC}
    /\ {OLD_DYNAMIC, LOOKALIKE, OTHER_APP, CACHE_STATIC} \subseteq running.activation.before
    /\ DOMAIN caches = {OLD_STATIC, OTHER_APP, CACHE_STATIC}

(* SpecClear: CLEAR_CACHE messages among fetch, CACHE_URLS, sync and       *)
(* activate events, from storage holding any of a stale and a foreign store.                *)

ClearNames == {CACHE_STATIC, CACHE_DYNAMIC, OLD_STATIC, OTHER_APP}

InitClear ==
    InitWith(UNION {[S -> {<<[url |-> Local(PATH_INDEX), resp |-> Resp(200, "server", "v1", "")]>>}] :
                        S \in SUBSET {OLD_STATIC, OTHER_APP}})

ClearCacheMessage ==
    \E cacheName \in ClearNames :
        /\ caches' = clearCache(caches, cacheName)
        /\ last' = [NoLast EXCEPT !.op = "CLEAR_CACHE", !.cacheName = cacheName,
                                   !.before = DOMAIN caches]
        /\ UNCHANGED <<running, server, page, db, posted, promised, hist, maxItems>>

ClearFetch ==
    FetchEvent({Req("GET", Local(PATH_PAGE), "", ""), Req("GET", Local(PATH_INDEX), "", "")},
               {Net("response", 200, "v1"), Net("timeout", 0, "")})

NextClear ==
    ClearCacheMessage \/ ClearFetch \/ CacheUrlsMessage \/ SyncEvent \/ ActivateEvent

SpecClear == InitClear /\ [][NextClear]_vars

\* C30: a CLEAR_CACHE message deletes exactly the named store and leaves every
\* other store and the sync queue unchanged, and no event other than the
\* activate event and a CLEAR_CACHE message ever deletes a whole store.
C30_ClearCacheDeletesOnlyNamedStore ==
    [][/\ last'.op = "CLEAR_CACHE"
          => /\ DOMAIN caches' = DOMAIN caches \ {last'.cacheName}
             /\ \A n \in DOMAIN caches' : caches'[n] = caches[n]
             /\ db' = db
       /\ (\E n \in DOMAIN caches : n \notin DOMAIN caches')
          => last'.op \in {"CLEAR_CACHE", "activate"}]_vars

C30_Witness ==
    /\ last.op = "CLEAR_CACHE"
    /\ last.cacheName = CACHE_DYNAMIC
    /\ {CACHE_DYNAMIC, CACHE_STATIC, OLD_STATIC, OTHER_APP} \subseteq last.before
    /\ DOMAIN caches = last.before \ {CACHE_DYNAMIC}
    /\ Entries(caches, CACHE_STATIC) # <<>>

----------------------------------------------------------------------------
(* Cache-first population (handleStaticAsset 352-360, handleImageRequest   *)
(* 388-394).                                                               *)

Populates(partialToo) ==
       (/\ last'.op = "fetch"
        /\ last'.handler \in {"static", "image"}
        /\ last'.req.method = "GET")
       => LET name == StoreOf(last'.handler)
              store == Entries(caches, name)
              resp == NetResponse(last'.net)
          IN  /\ (/\ CacheMatch(store, last'.req) = NoResponse
                  /\ last'.net.kind = "response"
                  /\ Ok(resp)
                  /\ (partialToo \/ resp.status # 206))
                 => CacheMatch(Entries(caches', name), last'.req) = resp
              /\ CacheMatch(store, last'.req) # NoResponse
                 => /\ last'.hit
                    /\ last'.fetches = 0
                    /\ last'.out = Answered(CacheMatch(store, last'.req))

(* no step removes the entry of a URL from a store *)
NoEntryLeaves ==
       \A name \in DOMAIN caches :
          /\ name \in DOMAIN caches'
          /\ \A i \in 1..Len(caches[name]) :
                \E j \in 1..Len(caches'[name]) : caches'[name][j].url = caches[name][i].url

\* C31 as stated: after a static or image request missed the cache and its
\* network fetch returned an ok response, the response is in the store, and a
\* request that finds an entry is answered with it without a network fetch.
C31_OkResponseStoredThenServed == [][Populates(TRUE)]_vars

\* C31: after a static or image GET missed the cache and its network fetch
\* returned an ok response that is not partial (status 206), the store holds
\* that response under the request URL; no step of these runs removes an entry
\* (the limits 50 and 200 are not reached and no store is deleted), and every
\* request that finds an entry for its URL is answered with the entry and
\* makes no network fetch.
C31_FullOkResponseStoredThenServed == [][Populates(FALSE) /\ NoEntryLeaves]_vars

C31_Witness ==
    /\ last.op = "fetch"
    /\ last.handler = "image"
    /\ last.hit
    /\ last.fetches = 0
    /\ last.out.kind = "response"
    /\ last.out.resp.body = "v2"


----------------------------------------------------------------------------
(* The page-side retry queue (processRetryQueue, app.js 701-744).  An item *)
(* is a verification that processVerification handed to addToRetryQueue.   *)

Attempts(data, outcome) ==
    {i \in 1..Len(page.attempts) :
        page.attempts[i].data = data /\ page.attempts[i].outcome = outcome}

\* C32: a verification handed to the retry queue is uploaded by the retry
\* passes at most 3 times; while it has fewer than 3 failed uploads and no
\* successful one it is in the queue with a retries count equal to its number
\* of failed uploads, and after a successful upload or 3 failed ones it is not
\* in the queue.
C32_RetryQueueItemKeptUntilSuccessOrThreeFailures ==
    \A data \in ShownOffline :
        LET failed == Cardinality(Attempts(data, "fail"))
            succeeded == Attempts(data, "ok") # {}
        IN  /\ failed + Cardinality(Attempts(data, "ok")) <= 3
            /\ (failed < 3 /\ ~succeeded)
               => \E i \in 1..Len(page.retry_queue) :
                     /\ page.retry_queue[i].data = data
                     /\ page.retry_queue[i].retries = failed
            /\ (failed >= 3 \/ succeeded) => ~InRetryQueue(data)

----------------------------------------------------------------------------
(* The DigiLocker state check (GET /api/digilocker/callback, 426-469). *)

\* C33: a callback is redirected to the success URL exactly when it carries a
\* code and a state equal to the state issued by the preceding
\* GET /api/digilocker; a callback whose state is missing or different is
\* answered 400, and one that carries the issued state and a code is accepted.
C33_CallbackAcceptedIffIssuedState ==
    server.callback.status # 0
    => LET cb == server.callback
           matches == cb.state # "" /\ cb.state = cb.issued
       IN  /\ (cb.status = 302 /\ cb.to = "/?digilocker=success") <=> (matches /\ cb.code # "")
           /\ ~matches => cb.status = 400

----------------------------------------------------------------------------
(* Overlapping replay passes (handleBackgroundUpload 537-573 under two     *)
(* 'background-upload' sync events).                                       *)

Succeeded(id) == {k \in 1..Len(hist) : hist[k] = id}

----------------------------------------------------------------------------
(* SpecStored: every operation that writes a network response into a       *)
(* store: navigations served by each of the four handlers, the install     *)
(* pre-cache and CACHE_URLS messages, from empty storage.                  *)

StoredFetch ==
    FetchEvent(NavigationRequests,
               {Net("response", 200, "v1"), Net("response", 206, "part"),
                Net("response", 404, "not-found"), Net("timeout", 0, "")})

NextStored == StoredFetch \/ InstallEvent \/ CacheUrlsMessage

SpecStored == Init /\ [][NextStored]_vars

\* C35: every response held by a cache store has an ok status (200..299), and
\* a response that the static, image or dynamic handler serves from its store
\* has an ok status.
C35_OnlyOkResponsesStored ==
    /\ \A name \in DOMAIN caches :
          \A i \in 1..Len(caches[name]) : Ok(caches[name][i].resp)
    /\ (last.op = "fetch" /\ last.hit /\ last.handler \in {"static", "image", "dynamic"})
       => (last.out.kind = "response" /\ Ok(last.out.resp))

C35_Witness ==
    /\ last.op = "fetch"
    /\ last.handler = "dynamic"
    /\ last.net.status = 404
    /\ last.out = Answered(NetResponse(last.net))
    /\ last.puts = 0
    /\ CacheMatch(Entries(caches, CACHE_DYNAMIC), last.req) # NoResponse
    /\ Ok(CacheMatch(Entries(caches, CACHE_DYNAMIC), last.req))

----------------------------------------------------------------------------
(* A fetched response and a failing cache write (all four handlers). *)

\* C36: whenever a handler's network fetch returned a response, the caller
\* gets exactly that response, also when cache.put of it was rejected: never
\* an error, the offline page, the placeholder image or a stored response.
C36_FetchedResponseIsReturned ==
    (/\ last.op = "fetch"
     /\ last.handler \in {"static", "image", "api", "dynamic"}
     /\ last.fetches = 1
     /\ last.net.kind = "response")
    => last.out = Answered(NetResponse(last.net))

====
